---- MODULE Spec2Model ----
(***************************************************************************)
(* Model of the organization resolution pipeline: the OKVED filter, the    *)
(* file cache, the per-name resolution (search_single) and the batch        *)
(* coordinator (search_multiple / search_organizations).                    *)
(*                                                                         *)
(* A Python str is a sequence of one-character strings, so that prefix     *)
(* tests, the filename sanitizer and date formatting are computed and not  *)
(* assumed.  An Optional[T] is the empty sequence (None) or the one-element*)
(* sequence holding the value.                                             *)
(***************************************************************************)
EXTENDS Integers, Sequences, FiniteSets, TLC

VARIABLES
    fOrg,       \* filter harness: the organization under test
    fFilters,   \* filter harness: the okved_filters under test (Optional[List[str]])
    fResult,    \* filter harness: what the two filter implementations returned
    cache,      \* the cache directory: sanitized filename -> file content
    now,        \* the wall clock (datetime.now()), in clock units
    call,       \* the search_organizations call in progress or just finished
    tasks,      \* one resolution (search_single) per input position of the call
    resp,       \* what each provider does with a query (no upstream change)
    prev,       \* the previous finished call, kept for comparison
    ncalls,     \* number of calls started
    got,        \* cache harness: the get just made and what it returned
    written,    \* cache harness: per file, the record last stored by set and when
    scr,        \* scraper harness: one call of a provider's search_organization
    exp,        \* export harness: an organization and its simplified record
    item        \* transformer harness: an item of a JSON response and its record

vars == <<fOrg, fFilters, fResult, cache, now, call, tasks, resp, prev, ncalls, got, written, scr, exp, item>>

----------------------------------------------------------------------------
\* Optional values and strings

None == <<>>

Some(x) == <<x>>

IsNone(o) == Len(o) = 0

Val(o) == o[1]

\* Python truthiness of an Optional[str] or Optional[List]: None, '' and [] are falsy
Truthy(o) == ~IsNone(o) /\ Len(Val(o)) > 0

\* str.startswith
StartsWith(s, p) == Len(p) <= Len(s) /\ SubSeq(s, 1, Len(p)) = p

SeqsUpTo(S, n) == UNION {[1..k -> S] : k \in 0..n}

Range(s) == {s[i] : i \in 1..Len(s)}

----------------------------------------------------------------------------
\* Organization (pydantic model)

DefaultRegion == <<"T">>

Organization(name, inn, ogrn, okved, okved_additional, phone, registration_date, status) ==
    [name |-> name, inn |-> inn, ogrn |-> ogrn, kpp |-> None, okved |-> okved,
     okved_additional |-> okved_additional, address |-> None, phone |-> phone,
     email |-> None, director |-> None, registration_date |-> registration_date,
     status |-> status, region |-> DefaultRegion]

----------------------------------------------------------------------------
\* Classification filter

\* a filter that normalizes codes (drops dots and whitespace) before comparing
Normalize(s) == SelectSeq(s, LAMBDA c : c \notin {".", " "})

MatchesNormalized(okved_filters, organization) ==
    IF ~Truthy(okved_filters) THEN TRUE
    ELSE IF ~Truthy(organization.okved) THEN FALSE
    ELSE \/ \E i \in 1..Len(Val(okved_filters)) :
               StartsWith(Normalize(Val(organization.okved)), Normalize(Val(okved_filters)[i]))
         \/ \E j \in 1..Len(organization.okved_additional) :
               \E i \in 1..Len(Val(okved_filters)) :
                  StartsWith(Normalize(organization.okved_additional[j]),
                             Normalize(Val(okved_filters)[i]))

\* a filter that rejects every organization without a primary code, filters or not
MatchesNeedsPrimary(okved_filters, organization) ==
    IF ~Truthy(organization.okved) THEN FALSE
    ELSE IF ~Truthy(okved_filters) THEN TRUE
    ELSE \/ \E i \in 1..Len(Val(okved_filters)) :
               StartsWith(Val(organization.okved), Val(okved_filters)[i])
         \/ \E j \in 1..Len(organization.okved_additional) :
               \E i \in 1..Len(Val(okved_filters)) :
                  StartsWith(organization.okved_additional[j], Val(okved_filters)[i])

\* OrganizationSearchService._matches_okved_filter
MatchesOkvedFilter(okved_filters, organization) ==
    IF ~Truthy(okved_filters) THEN TRUE
    ELSE IF ~Truthy(organization.okved) THEN FALSE
    ELSE \/ \E i \in 1..Len(Val(okved_filters)) :
               StartsWith(Val(organization.okved), Val(okved_filters)[i])
         \/ \E j \in 1..Len(organization.okved_additional) :
               \E i \in 1..Len(Val(okved_filters)) :
                  StartsWith(organization.okved_additional[j], Val(okved_filters)[i])

\* OrganizationSearchEngine.filter_by_okved (legacy engine); the caller passes
\* request.okved_filter or [], so the argument is a plain list
filter_by_okved(organization, okved_filters) ==
    IF Len(okved_filters) = 0 THEN TRUE
    ELSE IF ~Truthy(organization.okved) THEN FALSE
    ELSE \E i \in 1..Len(okved_filters) :
            \/ StartsWith(Val(organization.okved), okved_filters[i])
            \/ \E j \in 1..Len(organization.okved_additional) :
                  StartsWith(organization.okved_additional[j], okved_filters[i])

----------------------------------------------------------------------------
\* Harness for the classification filter: the inputs are drawn in FilterInit,
\* FilterApply runs both implementations on them.

MaxAdditional == 1

MaxFilters == 2

\* "41.20", "41", "410", "34", "43.1", "41." and the empty string
TestCodes ==
    {<<"4", "1", ".", "2", "0">>, <<"4", "1">>, <<"4", "1", "0">>, <<"3", "4">>,
     <<"4", "3", ".", "1">>, <<"4", "1", ".">>, <<>>}

\* "", "4", "41", "42", "43", "4120", " 41"
TestPrefixes ==
    {<<>>, <<"4">>, <<"4", "1">>, <<"4", "2">>, <<"4", "3">>,
     <<"4", "1", "2", "0">>, <<" ", "4", "1">>}

NameA == <<"a">>

TestOrg(okved, okved_additional) ==
    Organization(NameA, None, None, okved, okved_additional, None, None, None)

NoOrg == TestOrg(None, <<>>)

Pending == <<>>

FilterVarsInit ==
    /\ fOrg = NoOrg
    /\ fFilters = None
    /\ fResult = Pending

FilterInputs ==
    /\ fOrg \in {TestOrg(o, a) : o \in {None} \cup {Some(c) : c \in TestCodes},
                                 a \in SeqsUpTo(TestCodes \ {<<>>}, MaxAdditional)}
    /\ fFilters \in {None} \cup {Some(f) : f \in SeqsUpTo(TestPrefixes, MaxFilters)}
    /\ fResult = Pending

FilterApply ==
    /\ fResult = Pending
    /\ fResult' = <<MatchesOkvedFilter(fFilters, fOrg),
                    filter_by_okved(fOrg, IF Truthy(fFilters) THEN Val(fFilters) ELSE <<>>)>>
    /\ UNCHANGED <<fOrg, fFilters, cache, now, call, tasks, resp, prev, ncalls, got, written, scr, exp, item>>

FilterDone == fResult # Pending

SvcResult == fResult[1]

LegacyResult == fResult[2]

\* the codes of fOrg that are present: the primary code unless None, and the additional ones
CodesOf(organization) ==
    (IF IsNone(organization.okved) THEN {} ELSE {Val(organization.okved)})
        \cup Range(organization.okved_additional)

LiteralMatch(organization, prefixes) ==
    \E c \in CodesOf(organization) : \E p \in Range(prefixes) : StartsWith(c, p)

NormalizedMatch(organization, prefixes) ==
    \E c \in CodesOf(organization) : \E p \in Range(prefixes) :
        StartsWith(Normalize(c), Normalize(p))

----------------------------------------------------------------------------
\* Dates: a datetime is <<year, month, day>> (midnight); its text forms are computed.

DigitChars == <<"0", "1", "2", "3", "4", "5", "6", "7", "8", "9">>

DigitChar(d) == DigitChars[d + 1]

DigitVal(c) == CHOOSE d \in 0..9 : DigitChars[d + 1] = c

Pad2(n) == <<DigitChar((n \div 10) % 10), DigitChar(n % 10)>>

Pad4(n) == Pad2(n \div 100) \o Pad2(n % 100)

Num(s) == IF Len(s) = 2 THEN 10 * DigitVal(s[1]) + DigitVal(s[2])
          ELSE 1000 * DigitVal(s[1]) + 100 * DigitVal(s[2]) + 10 * DigitVal(s[3]) + DigitVal(s[4])

\* datetime.isoformat()
isoformat(dt) ==
    Pad4(dt[1]) \o <<"-">> \o Pad2(dt[2]) \o <<"-">> \o Pad2(dt[3])
        \o <<"T", "0", "0", ":", "0", "0", ":", "0", "0">>

\* pydantic's parsing of an ISO 8601 string into a datetime
parse_datetime(s) == <<Num(SubSeq(s, 1, 4)), Num(SubSeq(s, 6, 7)), Num(SubSeq(s, 9, 10))>>

\* str(n) of a natural number
RECURSIVE Decimal(_)
Decimal(n) == IF n < 10 THEN <<DigitChar(n)>> ELSE Decimal(n \div 10) \o <<DigitChar(n % 10)>>

\* datetime.strftime('%d.%m.%Y'): %d and %m are zero-padded to two digits, %Y is the
\* year as the C library prints it, a decimal number without padding (glibc)
strftime_dmy(dt) == Pad2(dt[3]) \o <<".">> \o Pad2(dt[2]) \o <<".">> \o Decimal(dt[1])

\* a dump that leaves out the status
OrgToJsonNoStatus(org) ==
    [org EXCEPT !.status = None,
                !.registration_date = IF IsNone(@) THEN None ELSE Some(isoformat(Val(@)))]

\* json.loads(organization.json()): the record as stored, dates as ISO strings
OrgToJson(org) ==
    [org EXCEPT !.registration_date =
        IF IsNone(@) THEN None ELSE Some(isoformat(Val(@)))]

\* a load that drops the registration date
OrgFromJsonNoDate(data) == [data EXCEPT !.registration_date = None]

\* Organization(**data['organization'])
OrgFromJson(data) ==
    [data EXCEPT !.registration_date =
        IF IsNone(@) THEN None ELSE Some(parse_datetime(Val(@)))]

----------------------------------------------------------------------------
\* File cache (FileCacheStrategy) and the no-op cache (NoCacheStrategy)

CacheDays == 7

UnitsPerDay == 2

\* timedelta.days: whole days, rounded down
Days(delta) == delta \div UnitsPerDay

JsonSuffixLen == 5

NameMax == 8

AlnumChars == {"a", "b", "c", "4", "7"}

KeptChar(c) == c \in AlnumChars \/ c \in {" ", "-", "_"}

RECURSIVE rstrip(_)
rstrip(s) == IF Len(s) > 0 /\ s[Len(s)] = " " THEN rstrip(SubSeq(s, 1, Len(s) - 1)) ELSE s

\* a cache keyed by the key as it is
SafeFilenameRaw(key) == key

\* a cache that keeps every key in one file
SafeFilenameShared(key) == <<"a">>

\* FileCacheStrategy._get_cache_path: the file name without the .json suffix
SafeFilename(key) == rstrip(SelectSeq(key, KeptChar))

\* the operating system refuses a file name longer than NameMax (ENAMETOOLONG)
PathTooLong(key) == Len(SafeFilename(key)) + JsonSuffixLen > NameMax

\* file contents: no file, an empty (truncated) file, a complete entry, or a file
\* that does not load as an entry
FileKinds ==
    {"absent", "empty", "entry", "garbage", "no_cached_at", "bad_timestamp",
     "no_organization", "invalid_organization"}

Absent == [kind |-> "absent", cached_at |-> 0, query |-> <<>>, organization |-> None, size |-> 0]

EmptyFile == [Absent EXCEPT !.kind = "empty"]

Garbage(size) == [Absent EXCEPT !.kind = "garbage", !.size = size]

OptLen(o) == IF IsNone(o) THEN 4 ELSE Len(Val(o)) + 2

RECURSIVE SumLen(_)
SumLen(ss) == IF Len(ss) = 0 THEN 0 ELSE Len(ss[1]) + 2 + SumLen(Tail(ss))

\* length of the JSON text of an entry, up to the part that is the same for all entries
SerLen(query, data) ==
    Len(query) + Len(data.name) + OptLen(data.inn) + OptLen(data.ogrn) + OptLen(data.kpp)
        + OptLen(data.okved) + SumLen(data.okved_additional) + OptLen(data.address)
        + OptLen(data.phone) + OptLen(data.email) + OptLen(data.director)
        + OptLen(data.registration_date) + OptLen(data.status) + Len(data.region)

Entry(cached_at, query, organization) ==
    [kind |-> "entry", cached_at |-> cached_at, query |-> query,
     organization |-> Some(OrgToJson(organization)),
     size |-> SerLen(query, OrgToJson(organization))]

GetResult(raised, value) == [raised |-> raised, value |-> value]

\* a get that treats an entry aged exactly cache_days as still valid
FileCacheGetInclusive(c, key, t) ==
    IF PathTooLong(key) THEN GetResult(TRUE, None)
    ELSE LET f == c[SafeFilename(key)] IN
         IF f.kind \in {"absent", "empty", "garbage", "no_cached_at", "bad_timestamp"}
         THEN GetResult(FALSE, None)
         ELSE IF Days(t - f.cached_at) > CacheDays THEN GetResult(FALSE, None)
         ELSE IF f.kind # "entry" THEN GetResult(FALSE, None)
         ELSE GetResult(FALSE, Some(OrgFromJson(Val(f.organization))))

\* a get whose file reading and parsing is not guarded
FileCacheGetUnguarded(c, key, t) ==
    IF PathTooLong(key) THEN GetResult(TRUE, None)
    ELSE LET f == c[SafeFilename(key)] IN
         IF f.kind = "absent" THEN GetResult(FALSE, None)
         ELSE IF f.kind \in {"empty", "garbage", "no_cached_at", "bad_timestamp"}
         THEN GetResult(TRUE, None)
         ELSE IF Days(t - f.cached_at) >= CacheDays THEN GetResult(FALSE, None)
         ELSE IF f.kind # "entry" THEN GetResult(TRUE, None)
         ELSE GetResult(FALSE, Some(OrgFromJson(Val(f.organization))))

\* FileCacheStrategy.get at clock t: raised is an exception leaving get
FileCacheGet(c, key, t) ==
    IF PathTooLong(key) THEN GetResult(TRUE, None)
    ELSE LET f == c[SafeFilename(key)] IN
         IF f.kind \in {"absent", "empty", "garbage", "no_cached_at", "bad_timestamp"}
         THEN GetResult(FALSE, None)
         ELSE IF Days(t - f.cached_at) >= CacheDays THEN GetResult(FALSE, None)
         ELSE IF f.kind # "entry" THEN GetResult(FALSE, None)
         ELSE GetResult(FALSE, Some(OrgFromJson(Val(f.organization))))

\* a get that deletes the file it cannot use (expired or unreadable)
FileCacheAfterGetEvicting(c, key, t) ==
    IF PathTooLong(key) THEN c
    ELSE IF c[SafeFilename(key)].kind # "absent" /\ IsNone(FileCacheGet(c, key, t).value)
         THEN [c EXCEPT ![SafeFilename(key)] = Absent]
         ELSE c

\* the cache directory after FileCacheStrategy.get: the file is only tested for
\* existence and opened with mode 'r'
FileCacheAfterGet(c, key, t) == c

\* a set that opens the file for appending: the text goes after what the file holds
FlushAppending(c, key, organization, t) ==
    LET new == [kind |-> "entry", cached_at |-> t, query |-> key,
                organization |-> Some(OrgToJson(organization)),
                size |-> SerLen(key, OrgToJson(organization))]
        cur == c[SafeFilename(key)]
    IN [c EXCEPT ![SafeFilename(key)] =
            IF cur.kind \in {"absent", "empty"} THEN new
            ELSE [Absent EXCEPT !.kind = "garbage", !.size = cur.size + new.size]]

\* open(cache_path, 'w'): the file exists and is empty
Truncate(c, key) == [c EXCEPT ![SafeFilename(key)] = EmptyFile]

\* closing the file writes the text at offset 0: over a longer text written
\* meanwhile by another writer, the tail of that text stays
Flush(c, key, organization, t) ==
    LET new == Entry(t, key, organization)
        cur == c[SafeFilename(key)]
    IN [c EXCEPT ![SafeFilename(key)] = IF cur.size > new.size THEN Garbage(cur.size) ELSE new]

\* FileCacheStrategy.set run without interruption and without an I/O error
FileCacheSet(c, key, organization, t) ==
    IF PathTooLong(key) THEN c ELSE Flush(Truncate(c, key), key, organization, t)

\* an is_valid that only looks whether the file is there
FileCacheIsValidByExistence(c, key, t) == c[SafeFilename(key)].kind # "absent"

\* FileCacheStrategy.is_valid
FileCacheIsValid(c, key, t) == ~IsNone(FileCacheGet(c, key, t).value)

\* NoCacheStrategy.get
NoCacheGet(key) == GetResult(FALSE, None)

\* NoCacheStrategy.is_valid
NoCacheIsValid(key) == FALSE

\* CacheStrategy.is_valid of the strategy in use
CacheIsValid(use_cache, c, key, t) ==
    IF use_cache THEN FileCacheIsValid(c, key, t) ELSE NoCacheIsValid(key)

----------------------------------------------------------------------------
\* Simplified record (SimpleOrganization) and the output of search_organizations

\* SimpleOrganization.from_organization(org).dict()
SimpleDict(org) ==
    [name |-> org.name, inn |-> org.inn, ogrn |-> org.ogrn, okved |-> org.okved,
     status |-> org.status,
     reg_date |-> IF IsNone(org.registration_date) THEN None
                  ELSE Some(strftime_dmy(Val(org.registration_date))),
     phone_number |-> org.phone]

\* an unresolved record that forgets the name
EmptyResultNoName(name) ==
    [name |-> <<>>, inn |-> None, ogrn |-> None, okved |-> None, status |-> None,
     reg_date |-> None, phone_number |-> None]

\* the record of a name without a resolved organization
EmptyResult(name) ==
    [name |-> name, inn |-> None, ogrn |-> None, okved |-> None, status |-> None,
     reg_date |-> None, phone_number |-> None]

\* search_organizations, lines 128-147: zip(organization_names, organizations)
ToOutput(names, organizations) ==
    [i \in 1..(IF Len(names) < Len(organizations) THEN Len(names) ELSE Len(organizations)) |->
        IF IsNone(organizations[i]) THEN EmptyResult(names[i])
        ELSE SimpleDict(Val(organizations[i]))]

----------------------------------------------------------------------------
\* Harness for the simplified record: the organization is drawn in ExportInputs,
\* ExportApply runs SimpleOrganization.from_organization(org).dict() on it.

\* registration dates: none, 5 January 2020, 31 December 999
ExportDates == {None, Some(<<2020, 1, 5>>), Some(<<999, 12, 31>>)}

ExportOrgs ==
    {Organization(NameA, inn, ogrn, okved, <<>>, phone, registration_date, status) :
        inn \in {None, Some(<<"7", "4">>)}, ogrn \in {None, Some(<<"1">>)},
        okved \in {None, Some(<<"4", "7", ".", "1", "1">>)},
        phone \in {None, Some(<<"7">>)}, registration_date \in ExportDates,
        status \in {None, Some(<<"a">>)}}

NoExport == [org |-> NoOrg, out |-> None]

ExportVarsInit == exp = NoExport

ExportInputs == exp \in {[org |-> o, out |-> None] : o \in ExportOrgs}

ExportApply ==
    /\ IsNone(exp.out)
    /\ exp' = [exp EXCEPT !.out = Some(SimpleDict(exp.org))]
    /\ UNCHANGED <<fOrg, fFilters, fResult, cache, now, call, tasks, resp, prev, ncalls, got, written, scr, item>>

----------------------------------------------------------------------------
\* Harness for ZachemINNDataTransformer.transform

\* the value of a key of the item: None when the item has no such key
ItemValues == {None, Some(<<>>), Some(<<"a">>)}

\* items of the JSON response whose address contains the region; the keys ogrn, kpp,
\* director and registration_date are not in them
ZachemItems ==
    [name : ItemValues, inn : ItemValues, status : ItemValues, okved_code : ItemValues,
     address : {Some(DefaultRegion)}]

\* data.get(key, '')
GetOrEmpty(v) == IF IsNone(v) THEN <<>> ELSE Val(v)

\* ZachemINNDataTransformer.transform: every field of the record is read with
\* data.get(key, ''), registration_date is set only when the item has it
ZachemTransform(data) ==
    Some([Organization(GetOrEmpty(data.name), Some(GetOrEmpty(data.inn)), Some(<<>>),
                       Some(GetOrEmpty(data.okved_code)), <<>>, None, None,
                       Some(GetOrEmpty(data.status)))
             EXCEPT !.kpp = Some(<<>>), !.address = Some(GetOrEmpty(data.address)),
                    !.director = Some(<<>>)])

NoItem == [data |-> NoOrg, out |-> None]

TransformVarsInit == item = NoItem

TransformInputs == item \in {[data |-> d, out |-> None] : d \in ZachemItems}

TransformApply ==
    /\ IsNone(item.out)
    /\ item' = [item EXCEPT !.out = Some(ZachemTransform(item.data))]
    /\ UNCHANGED <<fOrg, fFilters, fResult, cache, now, call, tasks, resp, prev, ncalls, got, written, scr, exp>>

----------------------------------------------------------------------------
\* Inputs of the model

MaxNames == 2

MaxCalls == 2

MaxTime == 16

MaxWorkers == 3

Scrapers == <<"RusprofileScraper", "ListOrgScraper", "ZachemINNScraper">>

NumScrapers == Len(Scrapers)

NameAQ == <<"a", "!">>

NameLong == <<"c", "c", "c", "c", "c">>

Names == {NameA, NameAQ, NameLong}

NameB == <<"b">>

\* names whose cache file can be written: two that share a file, one with a file of
\* its own
PoolNames == {NameA, NameAQ, NameB}

Files == {SafeFilename(n) : n \in Names \cup PoolNames}

Okved47 == <<"4", "7">>

Okved52 == <<"5", "2">>

FilterChoices == {None, Some(<<Okved47>>), Some(<<Okved52>>)}

\* the filters of a batch call: none, or one prefix that the providers' records
\* pass or fail
BatchFilterChoices == {None, Some(<<Okved47>>)}

\* {name, okved "47.11"}
OrgShop(name) ==
    Organization(name, None, None, Some(<<"4", "7", ".", "1", "1">>), <<>>, None, None, None)

\* a record with more fields set, okved "52.1"
OrgDepot(name) ==
    Organization(name, Some(<<"7", "4">>), Some(<<"1">>), Some(<<"5", "2", ".", "1">>),
                 <<>>, Some(<<"7">>), Some(<<2020, 1, 5>>), Some(<<"a">>))

\* what a provider does with a query: no data, an exception, or one of two records
ProviderKinds == {"none", "raise", "shop", "depot"}

\* the answer of a provider of the given kind to a query for name
Response(kind, name) ==
    IF kind = "shop" THEN [kind |-> "org", org |-> Some(OrgShop(name))]
    ELSE IF kind = "depot" THEN [kind |-> "org", org |-> Some(OrgDepot(name))]
    ELSE [kind |-> kind, org |-> None]

----------------------------------------------------------------------------
\* Provider extractors: one call of search_organization(name, region) of a scraper
\* of scraper_implementations.py or of the legacy scrapers.py

NewScrapers == {"RusprofileScraperImpl", "ListOrgScraperImpl", "ZachemINNScraperImpl"}

LegacyScrapers == {"RusprofileScraper", "ListOrgScraper", "ZachemINNScraper"}

\* @retry(stop=stop_after_attempt(3), ...)
StopAfterAttempt == 3

MaxCandidates == 2

\* the name a candidate carries: no name element or key at all, a value that makes
\* the construction of the record raise, the empty string, or a text
CandidateNames == {"missing", "invalid", "empty", "text"}

\* a candidate of the search response: its text contains the region, its name, it
\* carries a link to a detail page
Candidates == [region : BOOLEAN, name : CandidateNames, link : BOOLEAN]

\* what the detail page gives: a record, a record whose title is the empty string,
\* nothing, or an exception while it is parsed
PageKinds == {"org", "nameless", "none", "error"}

NoData == [kind |-> "none", from |-> 0, name |-> <<>>]

\* a record built from candidate i, with its name
Found(i, name) == [kind |-> "org", from |-> i, name |-> name]

\* the name of the record built from a candidate on the spot, None when no record is
\* built: _parse_search_result sets name only when the title element is there and
\* Organization(**org_data) needs it; the ZachemINN transformer takes
\* data.get('name', ''); Organization accepts the empty string
BuiltName(impl, cand) ==
    IF cand.name = "invalid" THEN None
    ELSE IF cand.name = "text" THEN Some(NameA)
    ELSE IF cand.name = "empty" THEN Some(<<>>)
    ELSE IF impl \in {"ZachemINNScraperImpl", "ZachemINNScraper"} THEN Some(<<>>)
    ELSE None

IdleScraper ==
    [pc |-> "idle", impl |-> "RusprofileScraperImpl", candidates |-> <<>>,
     body_ok |-> TRUE, page |-> "none", logs |-> <<>>, chosen |-> 0, result |-> NoData]

ScraperVarsInit == scr = IdleScraper

\* a _make_request whose retry has no stop condition
MakeRequestNoStop(log, ok) == IF ok THEN "response" ELSE "retry"

\* BaseHttpScraper._make_request under tenacity, one more attempt after the attempts
\* of log: the response, another attempt, or RetryError after the last attempt
MakeRequest(log, ok) ==
    IF ok THEN "response"
    ELSE IF Len(log) + 1 < StopAfterAttempt THEN "retry" ELSE "raise"

\* scrapers.py: session.get and raise_for_status inside the try of the decorated
\* function; the exception is caught there, so that tenacity sees a normal return
LegacyRequest(log, ok) == IF ok THEN "response" ELSE "raise"

Request(impl, log, ok) ==
    IF impl \in NewScrapers THEN MakeRequest(log, ok) ELSE LegacyRequest(log, ok)

\* a wrapper that lets the exception go to the caller
OnExceptionPropagate(s) == [s EXCEPT !.pc = "raised", !.result = NoData]

\* except Exception: log and return None
OnException(s) == [s EXCEPT !.pc = "returned", !.result = NoData]

\* the loop over the candidates from candidate i on: "return" a record built from the
\* search result, "page" (return what the detail page of the candidate gives) or
\* "none" when the candidates are exhausted
RECURSIVE SelectCandidate(_, _, _)
SelectCandidate(impl, cs, i) ==
    IF i > Len(cs) THEN [do |-> "none", from |-> 0]
    ELSE IF ~cs[i].region THEN SelectCandidate(impl, cs, i + 1)
    ELSE IF impl = "RusprofileScraperImpl"
         THEN IF ~IsNone(BuiltName(impl, cs[i])) THEN [do |-> "return", from |-> i]
              ELSE IF cs[i].link THEN [do |-> "page", from |-> i]
              ELSE SelectCandidate(impl, cs, i + 1)
    ELSE IF impl \in {"ZachemINNScraperImpl", "ZachemINNScraper"}
         THEN IF ~IsNone(BuiltName(impl, cs[i])) THEN [do |-> "return", from |-> i]
              ELSE [do |-> "none", from |-> i]
    ELSE IF cs[i].link THEN [do |-> "page", from |-> i]
         ELSE SelectCandidate(impl, cs, i + 1)

\* search_organization is called
ScraperCall(impl, candidates, body_ok, page) ==
    /\ scr.pc = "idle"
    /\ scr' = [IdleScraper EXCEPT !.pc = "search_request", !.impl = impl,
                                  !.candidates = candidates, !.body_ok = body_ok,
                                  !.page = page, !.logs = << <<>> >>]
    /\ UNCHANGED <<fOrg, fFilters, fResult, cache, now, call, tasks, resp, prev, ncalls, got, written, exp, item>>

\* one attempt of the search request, and on a response the rest of search_organization
\* up to its return or to the request of the detail page
SearchAttempt(ok) ==
    /\ scr.pc = "search_request"
    /\ LET r == Request(scr.impl, scr.logs[1], ok)
           s1 == [scr EXCEPT !.logs[1] = Append(@, ok)]
           sel == SelectCandidate(scr.impl, scr.candidates, 1)
       IN scr' = IF r = "retry" THEN s1
                 ELSE IF r = "raise" THEN OnException(s1)
                 ELSE IF ~scr.body_ok THEN OnException(s1)
                 ELSE IF sel.do = "return"
                      THEN [s1 EXCEPT !.pc = "returned", !.chosen = sel.from,
                                      !.result =
                                          Found(sel.from,
                                                Val(BuiltName(scr.impl,
                                                              scr.candidates[sel.from])))]
                 ELSE IF sel.do = "page"
                      THEN [s1 EXCEPT !.pc = "page_request", !.chosen = sel.from,
                                      !.logs = Append(@, <<>>)]
                 ELSE [s1 EXCEPT !.pc = "returned", !.chosen = sel.from, !.result = NoData]
    /\ UNCHANGED <<fOrg, fFilters, fResult, cache, now, call, tasks, resp, prev, ncalls, got, written, exp, item>>

\* _parse_company_page: one attempt of the request of the detail page, and on a
\* response the extraction of the record
PageAttempt(ok) ==
    /\ scr.pc = "page_request"
    /\ LET r == Request(scr.impl, scr.logs[2], ok)
           s1 == [scr EXCEPT !.logs[2] = Append(@, ok)]
       IN scr' = IF r = "retry" THEN s1
                 ELSE IF r = "raise" THEN OnException(s1)
                 ELSE IF scr.page = "error" THEN OnException(s1)
                 ELSE IF scr.page = "org"
                      THEN [s1 EXCEPT !.pc = "returned", !.result = Found(scr.chosen, NameA)]
                 ELSE IF scr.page = "nameless"
                      THEN [s1 EXCEPT !.pc = "returned", !.result = Found(scr.chosen, <<>>)]
                 ELSE [s1 EXCEPT !.pc = "returned", !.result = NoData]
    /\ UNCHANGED <<fOrg, fFilters, fResult, cache, now, call, tasks, resp, prev, ncalls, got, written, exp, item>>

----------------------------------------------------------------------------
\* State of one call of search_organizations and of its resolutions

\* region: the region given to the providers; single: the arguments of
\* search_organization when the call was made through it
IdleCall ==
    [status |-> "idle", names |-> <<>>, okved_filters |-> None, use_cache |-> TRUE,
     output |-> <<>>, completed |-> <<>>, finished |-> 0, region |-> DefaultRegion,
     single |-> None]

\* pc: queued (submitted to the executor), scrape (in the provider loop, about to
\* call scraper idx), set_open and set_write (inside cache.set), done, raised;
\* asked: the scrapers called so far; set_failed: cache.set met an I/O error;
\* sessions: the HTTP sessions used so far; saw: what the cache lookup found in the
\* file, kept until the first provider call of the resolution
QueuedTask ==
    [pc |-> "queued", idx |-> 1, cached |-> None, result |-> None, net |-> 0,
     asked |-> <<>>, set_failed |-> FALSE, sessions |-> {}, saw |-> "unread"]

\* done: a get was made; checked: an is_valid was made, on the file cache
\* (use_cache) or on the no-op cache
NoGot ==
    [done |-> FALSE, key |-> <<>>, value |-> None, raised |-> FALSE,
     checked |-> FALSE, use_cache |-> TRUE, valid |-> FALSE]

MainVarsInit ==
    /\ cache = [f \in Files |-> Absent]
    /\ now = 0
    /\ call = IdleCall
    /\ tasks = <<>>
    /\ prev = [call |-> IdleCall, cache |-> [f \in Files |-> Absent]]
    /\ ncalls = 0

HarnessVarsInit ==
    /\ got = NoGot
    /\ written = [f \in Files |-> None]

\* what the providers do is not known beforehand and does not change
ProvidersInit == resp \in [1..NumScrapers -> ProviderKinds]

\* the harnesses call no provider
NoProviders == resp = [k \in 1..NumScrapers |-> "none"]

Finished(t) == t.pc \in {"done", "raised"}

Executing(t) == t.pc \in {"scrape", "set_open", "set_write"}

\* an executor that starts a thread for every work item
WorkerFreeAlways(ts) == TRUE

\* ThreadPoolExecutor(max_workers): a queued work item is taken when fewer than
\* max_workers threads are running one
WorkerFree(ts) == Cardinality({j \in 1..Len(ts) : Executing(ts[j])}) < MaxWorkers

\* the requests.Session through which resolution i calls scraper k: the one that the
\* scraper object created in its constructor, when the service was built
SessionUsed(i, k) == Scrapers[k]

\* what the cache lookup of a resolution finds in the file of its key
Seen(c, key) == IF PathTooLong(key) THEN "unread" ELSE c[SafeFilename(key)].kind

\* search_organizations up to the dispatch in search_multiple_async: a new service,
\* one executor work item per name
StartCall(names, okved_filters, use_cache) ==
    /\ call.status # "running"
    /\ \A i \in 1..Len(tasks) : Finished(tasks[i])
    /\ ncalls < MaxCalls
    /\ ncalls' = ncalls + 1
    /\ prev' = [call |-> [call EXCEPT !.completed = <<>>], cache |-> cache]
    /\ call' = [IdleCall EXCEPT !.status = "running", !.names = names,
                                !.okved_filters = okved_filters, !.use_cache = use_cache]
    /\ tasks' = [i \in 1..Len(names) |-> QueuedTask]
    /\ UNCHANGED <<fOrg, fFilters, fResult, cache, now, resp, got, written, scr, exp, item>>

\* the value True given as okved_filters
BoolTrue == Some(<< <<"True">> >>)

\* the value False given as okved_filters: as falsy as None, the only thing the
\* code asks of it
BoolFalse == None

\* _matches_okved_filter, line 47: 'for okved_filter in self.okved_filters' raises
\* TypeError when okved_filters is True; it is reached when the organization has
\* an okved
FilterRaises(okved_filters, organization) ==
    okved_filters = BoolTrue /\ Truthy(organization.okved)

\* the regions a caller asks for; the empty string is falsy
Regions == {DefaultRegion, <<"M">>, <<>>}

\* search_organization(name, use_cache, region), lines 150-153: it calls
\* search_organizations([name], use_cache, region), whose second parameter is
\* okved_filters and whose third is use_cache; the region is left to its default
SingleCall(name, use_cache, region) ==
    /\ call.status # "running"
    /\ \A i \in 1..Len(tasks) : Finished(tasks[i])
    /\ ncalls < MaxCalls
    /\ ncalls' = ncalls + 1
    /\ prev' = [call |-> [call EXCEPT !.completed = <<>>], cache |-> cache]
    /\ call' = [IdleCall EXCEPT !.status = "running", !.names = <<name>>,
                                !.okved_filters = IF use_cache THEN BoolTrue ELSE BoolFalse,
                                !.use_cache = Len(region) > 0,
                                !.region = DefaultRegion,
                                !.single = Some([use_cache |-> use_cache,
                                                 region |-> region])]
    /\ tasks' = <<QueuedTask>>
    /\ UNCHANGED <<fOrg, fFilters, fResult, cache, now, resp, got, written, scr, exp, item>>

\* a service that reads the file cache whatever use_cache says
CacheGetIgnoringSwitch(use_cache, c, key, t) == FileCacheGet(c, key, t)

\* the cache strategy chosen at line 119
CacheGet(use_cache, c, key, t) ==
    IF use_cache THEN FileCacheGet(c, key, t) ELSE NoCacheGet(key)

\* the cache directory after get of the strategy in use
CacheAfterGet(use_cache, c, key, t) ==
    IF use_cache THEN FileCacheAfterGet(c, key, t) ELSE c

\* a resolution that goes on to the providers when the cached record fails the filter
AfterGetFallThrough(okved_filters, r) ==
    IF r.raised THEN [pc |-> "raised", result |-> None]
    ELSE IF ~IsNone(r.value) /\ MatchesOkvedFilter(okved_filters, Val(r.value))
         THEN [pc |-> "done", result |-> r.value]
         ELSE [pc |-> "scrape", result |-> None]

\* search_single, lines 62-71: what follows cache.get; an exception of the filter
\* is outside the try
AfterGet(okved_filters, r) ==
    IF r.raised THEN [pc |-> "raised", result |-> None]
    ELSE IF ~IsNone(r.value)
         THEN IF FilterRaises(okved_filters, Val(r.value))
              THEN [pc |-> "raised", result |-> None]
              ELSE IF MatchesOkvedFilter(okved_filters, Val(r.value))
              THEN [pc |-> "done", result |-> r.value]
              ELSE [pc |-> "done", result |-> None]
         ELSE [pc |-> "scrape", result |-> None]

\* a worker thread takes resolution i from the executor queue and runs search_single
\* up to the end of the cache lookup
TaskCacheGet(i) ==
    /\ i \in 1..Len(tasks)
    /\ tasks[i].pc = "queued"
    /\ \A j \in 1..(i - 1) : tasks[j].pc # "queued"
    /\ WorkerFree(tasks)
    /\ LET r == CacheGet(call.use_cache, cache, call.names[i], now)
           a == AfterGet(call.okved_filters, r)
       IN /\ tasks' = [tasks EXCEPT ![i] = [@ EXCEPT !.pc = a.pc, !.cached = r.value,
                                                     !.result = a.result,
                                                     !.saw = IF call.use_cache
                                                             THEN Seen(cache, call.names[i])
                                                             ELSE "unread"]]
          /\ call' = IF a.pc = "scrape" THEN call
                     ELSE [call EXCEPT !.completed = Append(@, i)]
    /\ cache' = CacheAfterGet(call.use_cache, cache, call.names[i], now)
    /\ UNCHANGED <<fOrg, fFilters, fResult, now, resp, prev, ncalls, got, written, scr, exp, item>>

\* a provider loop that gives up at the first provider exception
ScrapeStepAbortOnError(okved_filters, idx, response) ==
    IF response.kind = "raise" THEN [pc |-> "done", idx |-> idx, result |-> None]
    ELSE IF response.kind = "org" /\ MatchesOkvedFilter(okved_filters, Val(response.org))
    THEN [pc |-> "set_open", idx |-> idx, result |-> response.org]
    ELSE IF idx < NumScrapers
         THEN [pc |-> "scrape", idx |-> idx + 1, result |-> None]
         ELSE [pc |-> "done", idx |-> idx, result |-> None]

\* a provider loop without the early return: every provider is asked
ScrapeStepAskAll(okved_filters, idx, response) ==
    IF idx < NumScrapers
    THEN [pc |-> "scrape", idx |-> idx + 1, result |-> None]
    ELSE IF response.kind = "org" /\ MatchesOkvedFilter(okved_filters, Val(response.org))
         THEN [pc |-> "set_open", idx |-> idx, result |-> response.org]
         ELSE [pc |-> "done", idx |-> idx, result |-> None]

\* search_single, lines 74-90: one iteration of the provider loop, given what
\* scraper idx answered; an exception, of the scraper or of the filter, is logged
\* and the loop continues
ScrapeStep(okved_filters, idx, response) ==
    IF /\ response.kind = "org"
       /\ ~FilterRaises(okved_filters, Val(response.org))
       /\ MatchesOkvedFilter(okved_filters, Val(response.org))
    THEN [pc |-> "set_open", idx |-> idx, result |-> response.org]
    ELSE IF idx < NumScrapers
         THEN [pc |-> "scrape", idx |-> idx + 1, result |-> None]
         ELSE [pc |-> "done", idx |-> idx, result |-> None]

\* resolution i calls scraper idx
TaskScrape(i) ==
    /\ i \in 1..Len(tasks)
    /\ tasks[i].pc = "scrape"
    /\ LET n == call.names[i]
           k == tasks[i].idx
           st == ScrapeStep(call.okved_filters, k, Response(resp[k], n))
           pc2 == IF st.pc = "set_open" /\ ~call.use_cache THEN "done" ELSE st.pc
       IN /\ tasks' = [tasks EXCEPT ![i] = [@ EXCEPT !.pc = pc2, !.idx = st.idx,
                                                     !.result = st.result, !.net = @ + 1,
                                                     !.asked = Append(@, Scrapers[k]),
                                                     !.sessions = @ \cup {SessionUsed(i, k)},
                                                     !.saw = "unread"]]
          /\ call' = IF pc2 = "done" THEN [call EXCEPT !.completed = Append(@, i)]
                     ELSE call
    /\ UNCHANGED <<fOrg, fFilters, fResult, cache, now, resp, prev, ncalls, got, written, scr, exp, item>>

\* cache.set, line 55: open(cache_path, 'w') truncates the file, or fails with an
\* I/O error that set logs and swallows
TaskSetOpen(i) ==
    /\ i \in 1..Len(tasks)
    /\ tasks[i].pc = "set_open"
    /\ \E ok \in BOOLEAN :
        /\ PathTooLong(call.names[i]) => ~ok
        /\ IF ok
           THEN /\ cache' = Truncate(cache, call.names[i])
                /\ tasks' = [tasks EXCEPT ![i].pc = "set_write"]
                /\ call' = call
           ELSE /\ cache' = cache
                /\ tasks' = [tasks EXCEPT ![i].pc = "done", ![i].set_failed = TRUE]
                /\ call' = [call EXCEPT !.completed = Append(@, i)]
    /\ UNCHANGED <<fOrg, fFilters, fResult, now, resp, prev, ncalls, got, written, scr, exp, item>>

\* cache.set, lines 56-58: the text is written when the file is closed, or the write
\* fails and leaves a file that does not load
TaskSetWrite(i) ==
    /\ i \in 1..Len(tasks)
    /\ tasks[i].pc = "set_write"
    /\ \E ok \in BOOLEAN :
        /\ cache' = IF ok THEN Flush(cache, call.names[i], Val(tasks[i].result), now)
                    ELSE [cache EXCEPT ![SafeFilename(call.names[i])] = Garbage(@.size)]
        /\ tasks' = [tasks EXCEPT ![i].pc = "done", ![i].set_failed = ~ok]
    /\ call' = [call EXCEPT !.completed = Append(@, i)]
    /\ UNCHANGED <<fOrg, fFilters, fResult, now, resp, prev, ncalls, got, written, scr, exp, item>>

\* results in the order the resolutions completed
GatherByCompletion(ts, completed) == [k \in 1..Len(completed) |-> ts[completed[k]].result]

\* asyncio.gather(*tasks), line 103: the results in the order of the tasks
Gather(ts, completed) == [i \in 1..Len(ts) |-> ts[i].result]

\* search_multiple returns and search_organizations builds its output
CallReturn ==
    /\ call.status = "running"
    /\ \A i \in 1..Len(tasks) : tasks[i].pc = "done"
    /\ call' = [call EXCEPT !.status = "returned", !.finished = now,
                            !.output = ToOutput(call.names, Gather(tasks, call.completed))]
    /\ UNCHANGED <<fOrg, fFilters, fResult, cache, now, tasks, resp, prev, ncalls, got, written, scr, exp, item>>

\* gather has no return_exceptions: the first exception of a resolution leaves
\* search_multiple and search_organizations; the other resolutions run on
CallRaise ==
    /\ call.status = "running"
    /\ \E i \in 1..Len(tasks) : tasks[i].pc = "raised"
    /\ call' = [call EXCEPT !.status = "raised", !.finished = now]
    /\ UNCHANGED <<fOrg, fFilters, fResult, cache, now, tasks, resp, prev, ncalls, got, written, scr, exp, item>>

TickSteps == {CacheDays * UnitsPerDay - 1, CacheDays * UnitsPerDay}

\* time passes after a call; a call is short on the scale of the clock, and the
\* clock starts at the first call
Tick(d) ==
    /\ call.status \notin {"idle", "running"}
    /\ \A i \in 1..Len(tasks) : Finished(tasks[i])
    /\ now + d <= MaxTime
    /\ now' = now + d
    /\ UNCHANGED <<fOrg, fFilters, fResult, cache, call, tasks, resp, prev, ncalls, got, written, scr, exp, item>>

Init ==
    FilterVarsInit /\ MainVarsInit /\ HarnessVarsInit /\ ScraperVarsInit /\ ExportVarsInit
        /\ TransformVarsInit
        /\ ProvidersInit

Resolve ==
    \/ \E i \in 1..MaxNames : TaskCacheGet(i)
    \/ \E i \in 1..MaxNames : TaskScrape(i)
    \/ \E i \in 1..MaxNames : TaskSetOpen(i)
    \/ \E i \in 1..MaxNames : TaskSetWrite(i)
    \/ CallReturn
    \/ CallRaise
    \/ \E d \in TickSteps : Tick(d)

\* calls of search_organizations one after the other, each for a single name, with
\* caching enabled or disabled
Next ==
    \/ \E n \in Names, f \in FilterChoices, u \in BOOLEAN : StartCall(<<n>>, f, u)
    \/ Resolve

Spec == Init /\ [][Next]_vars

\* calls of search_organization one after the other
SingleNext ==
    \/ \E n \in Names, u \in BOOLEAN, r \in Regions : SingleCall(n, u, r)
    \/ Resolve

SingleSpec == Init /\ [][SingleNext]_vars

\* one call of search_organizations for a list of names, on an empty cache directory
BatchNext ==
    \/ /\ ncalls = 0
       /\ \E names \in SeqsUpTo(Names, MaxNames), f \in BatchFilterChoices, u \in BOOLEAN :
             StartCall(names, f, u)
    \/ Resolve

BatchSpec == Init /\ [][BatchNext]_vars

\* the steps that the worker threads and the event loop take by themselves
Progress ==
    \/ \E i \in 1..MaxNames : TaskCacheGet(i)
    \/ \E i \in 1..MaxNames : TaskScrape(i)
    \/ \E i \in 1..MaxNames : TaskSetOpen(i)
    \/ \E i \in 1..MaxNames : TaskSetWrite(i)
    \/ CallReturn
    \/ CallRaise

\* the batch under the scheduling of the code: a work item submitted to the executor
\* is run by a worker thread, a thread that is running goes on (every network call
\* and every file operation ends), and the event loop resumes gather when the futures
\* are done
FairBatchSpec == BatchSpec /\ WF_vars(Progress)

\* the filter of a pool call: the record with okved "52.1" passes it, the record with
\* okved "47.11" fails it
PoolFilter == Some(<<Okved52>>)

\* one call of search_organizations with caching enabled, on an empty cache directory,
\* for names whose resolutions share the worker pool and the cache directory; none of
\* the names makes the cache raise
PoolNext ==
    \/ /\ ncalls = 0
       /\ \E names \in SeqsUpTo(PoolNames, MaxNames) : StartCall(names, PoolFilter, TRUE)
    \/ \E i \in 1..MaxNames : TaskCacheGet(i)
    \/ \E i \in 1..MaxNames : TaskScrape(i)
    \/ \E i \in 1..MaxNames : TaskSetOpen(i)
    \/ \E i \in 1..MaxNames : TaskSetWrite(i)
    \/ CallReturn

\* the providers of a pool call answer (no data or a record), they do not raise
PoolProviders == resp \in [1..NumScrapers -> ProviderKinds \ {"raise"}]

PoolInit ==
    FilterVarsInit /\ MainVarsInit /\ HarnessVarsInit /\ ScraperVarsInit /\ ExportVarsInit
        /\ TransformVarsInit
        /\ PoolProviders

PoolSpec == PoolInit /\ [][PoolNext]_vars

\* a batch with one name more than the executor has worker threads
FullBatch == [i \in 1..(MaxWorkers + 1) |-> NameA]

\* the steps of the worker threads and of the event loop on a full batch, with
\* caching disabled: no step of cache.set is reached
FullProgress ==
    \/ \E i \in 1..Len(FullBatch) : TaskCacheGet(i)
    \/ \E i \in 1..Len(FullBatch) : TaskScrape(i)
    \/ CallReturn

\* one call of search_organizations for a full batch, with caching disabled
FullNext ==
    \/ /\ ncalls = 0
       /\ StartCall(FullBatch, PoolFilter, FALSE)
    \/ FullProgress

\* the full batch under the scheduling of the code: a free worker thread takes the
\* next queued work item, and a running thread goes on
FairFullSpec == PoolInit /\ [][FullNext]_vars /\ WF_vars(FullProgress)

----------------------------------------------------------------------------
\* The legacy engine (OrganizationSearchEngine, search_engine.py): the resolution
\* does not filter, the coordinator filters and catches what a resolution raises

\* OrganizationSearchEngine._load_from_cache at clock t
LoadFromCache(c, key, t) ==
    IF PathTooLong(key) THEN GetResult(TRUE, None)
    ELSE LET f == c[SafeFilename(key)] IN
         IF f.kind = "absent" THEN GetResult(FALSE, None)
         ELSE IF f.kind \in {"empty", "garbage", "no_cached_at", "bad_timestamp"}
         THEN GetResult(FALSE, None)
         ELSE IF Days(t - f.cached_at) < CacheDays
         THEN IF f.kind = "entry"
              THEN GetResult(FALSE, Some(OrgFromJson(Val(f.organization))))
              ELSE GetResult(FALSE, None)
         ELSE GetResult(FALSE, None)

\* length of the text json.dump has written when it reaches registration_date
DumpedLen(query, data) ==
    Len(query) + Len(data.name) + OptLen(data.inn) + OptLen(data.ogrn) + OptLen(data.kpp)
        + OptLen(data.okved) + SumLen(data.okved_additional) + OptLen(data.address)
        + OptLen(data.phone) + OptLen(data.email) + OptLen(data.director)

\* OrganizationSearchEngine._save_to_cache: organization.dict() keeps a datetime as
\* it is, json.dump writes the fields before it and raises TypeError, which is
\* logged; the truncated file stays.  ok: open(cache_path, 'w') succeeded
SaveToCache(c, key, organization, t, ok) ==
    IF PathTooLong(key) \/ ~ok THEN c
    ELSE IF ~IsNone(organization.registration_date)
         THEN [c EXCEPT ![SafeFilename(key)] = Garbage(DumpedLen(key, organization))]
         ELSE [c EXCEPT ![SafeFilename(key)] = Entry(t, key, organization)]

ErrNotMatching == "found but does not match the OKVED filter"

ErrNotFound == "not found"

ErrSearch == "search error"

\* SearchResult (models.py)
SearchResult(query, found, organization, error) ==
    [query |-> query, found |-> found, organization |-> organization, error |-> error]

\* search_single_organization, lines 67-71: what follows _load_from_cache
AfterLoad(r) ==
    IF r.raised THEN [pc |-> "raised", result |-> None]
    ELSE IF ~IsNone(r.value) THEN [pc |-> "done", result |-> r.value]
    ELSE [pc |-> "scrape", result |-> None]

\* a worker thread takes resolution i and runs search_single_organization up to the
\* end of the cache lookup
LegacyTaskLoad(i) ==
    /\ i \in 1..Len(tasks)
    /\ tasks[i].pc = "queued"
    /\ \A j \in 1..(i - 1) : tasks[j].pc # "queued"
    /\ WorkerFree(tasks)
    /\ LET r == LoadFromCache(cache, call.names[i], now)
           a == AfterLoad(r)
       IN /\ tasks' = [tasks EXCEPT ![i] = [@ EXCEPT !.pc = a.pc, !.cached = r.value,
                                                     !.result = a.result,
                                                     !.saw = Seen(cache, call.names[i])]]
          /\ call' = IF a.pc = "scrape" THEN call
                     ELSE [call EXCEPT !.completed = Append(@, i)]
    /\ UNCHANGED <<fOrg, fFilters, fResult, cache, now, resp, prev, ncalls, got, written, scr, exp, item>>

\* search_single_organization, lines 74-86: one iteration of the provider loop; the
\* first record a provider returns is saved and returned, whatever the filter
LegacyScrapeStep(idx, response) ==
    IF response.kind = "org"
    THEN [pc |-> "done", idx |-> idx, result |-> response.org, save |-> TRUE]
    ELSE IF idx < NumScrapers
         THEN [pc |-> "scrape", idx |-> idx + 1, result |-> None, save |-> FALSE]
         ELSE [pc |-> "done", idx |-> idx, result |-> None, save |-> FALSE]

\* resolution i calls scraper idx and saves the record it returned
LegacyTaskScrape(i) ==
    /\ i \in 1..Len(tasks)
    /\ tasks[i].pc = "scrape"
    /\ LET n == call.names[i]
           k == tasks[i].idx
           st == LegacyScrapeStep(k, Response(resp[k], n))
           t2 == [tasks[i] EXCEPT !.pc = st.pc, !.idx = st.idx,
                                  !.result = st.result, !.net = @ + 1,
                                  !.asked = Append(@, Scrapers[k]),
                                  !.sessions = @ \cup {SessionUsed(i, k)},
                                  !.saw = "unread"]
       IN /\ call' = IF st.pc = "done" THEN [call EXCEPT !.completed = Append(@, i)]
                     ELSE call
          /\ IF st.save
             THEN \E ok \in BOOLEAN :
                     /\ cache' = SaveToCache(cache, n, Val(st.result), now, ok)
                     /\ tasks' = [tasks EXCEPT ![i] = [t2 EXCEPT !.set_failed = ~ok]]
             ELSE /\ cache' = cache
                  /\ tasks' = [tasks EXCEPT ![i] = t2]
    /\ UNCHANGED <<fOrg, fFilters, fResult, now, resp, prev, ncalls, got, written, scr, exp, item>>

\* a coordinator that leaves the record in the outcome of a filtered-out resolution
LegacyOutcomeKeepsRecord(query, okved_filter, t) ==
    IF t.pc = "raised" THEN [query |-> query, found |-> FALSE, organization |-> None,
                             error |-> Some("search error")]
    ELSE IF ~IsNone(t.result)
         THEN IF filter_by_okved(Val(t.result),
                                 IF Truthy(okved_filter) THEN Val(okved_filter) ELSE <<>>)
              THEN [query |-> query, found |-> TRUE, organization |-> t.result, error |-> None]
              ELSE [query |-> query, found |-> FALSE, organization |-> t.result,
                    error |-> Some("found but does not match the OKVED filter")]
         ELSE [query |-> query, found |-> FALSE, organization |-> None,
               error |-> Some("not found")]

\* search_organizations_async, lines 126-155: the outcome of one awaited resolution
LegacyOutcome(query, okved_filter, t) ==
    IF t.pc = "raised" THEN SearchResult(query, FALSE, None, Some(ErrSearch))
    ELSE IF ~IsNone(t.result)
         THEN IF filter_by_okved(Val(t.result),
                                 IF Truthy(okved_filter) THEN Val(okved_filter) ELSE <<>>)
              THEN SearchResult(query, TRUE, t.result, None)
              ELSE SearchResult(query, FALSE, None, Some(ErrNotMatching))
         ELSE SearchResult(query, FALSE, None, Some(ErrNotFound))

\* OrganizationSearchEngine.search_organizations returns: every resolution was
\* awaited in the order of the names
LegacyCollect ==
    /\ call.status = "running"
    /\ \A i \in 1..Len(tasks) : Finished(tasks[i])
    /\ call' = [call EXCEPT !.status = "returned", !.finished = now,
                   !.output = [i \in 1..Len(tasks) |->
                                  LegacyOutcome(call.names[i], call.okved_filters, tasks[i])]]
    /\ UNCHANGED <<fOrg, fFilters, fResult, cache, now, tasks, resp, prev, ncalls, got, written, scr, exp, item>>

\* OrganizationSearchEngine.search_organizations(request) up to the dispatch
LegacyStartCall(names, okved_filter) == StartCall(names, okved_filter, TRUE)

\* one batch on an empty cache directory, or single-name requests one after the other
LegacyNext ==
    \/ /\ call.status # "running"
       /\ \E names \in SeqsUpTo(Names, MaxNames), f \in FilterChoices :
             (Len(names) = 1 \/ ncalls = 0) /\ LegacyStartCall(names, f)
    \/ \E i \in 1..MaxNames : LegacyTaskLoad(i)
    \/ \E i \in 1..MaxNames : LegacyTaskScrape(i)
    \/ LegacyCollect
    \/ \E d \in TickSteps : Tick(d)

LegacySpec == Init /\ [][LegacyNext]_vars

\* the filter harness
FilterInit ==
    FilterInputs /\ MainVarsInit /\ HarnessVarsInit /\ ScraperVarsInit /\ ExportVarsInit
        /\ TransformVarsInit
        /\ NoProviders

FilterSpec == FilterInit /\ [][FilterApply]_vars

----------------------------------------------------------------------------
\* Harness for the cache store alone: set, get, damage to a file, and the clock

HarnessOrgs == {OrgShop(NameA), OrgDepot(NameA)}

DamagedKinds ==
    {"garbage", "no_cached_at", "bad_timestamp", "no_organization", "invalid_organization"}

\* cache.set(key, organization), uninterrupted; replaced: the file held an entry
\* with another record, stored under another key
HarnessSet(key, organization) ==
    /\ cache' = FileCacheSet(cache, key, organization, now)
    /\ written' = IF PathTooLong(key) THEN written
                  ELSE [written EXCEPT ![SafeFilename(key)] =
                            Some([org |-> organization, at |-> now, key |-> key,
                                  replaced |-> /\ cache[SafeFilename(key)].kind = "entry"
                                               /\ cache[SafeFilename(key)].query # key
                                               /\ cache[SafeFilename(key)].organization
                                                      # Some(OrgToJson(organization))])]
    /\ got' = NoGot
    /\ UNCHANGED <<fOrg, fFilters, fResult, now, call, tasks, resp, prev, ncalls, scr, exp, item>>

\* cache.get(key)
HarnessGet(key) ==
    /\ LET r == FileCacheGet(cache, key, now)
       IN got' = [NoGot EXCEPT !.done = TRUE, !.key = key, !.value = r.value,
                               !.raised = r.raised]
    /\ cache' = FileCacheAfterGet(cache, key, now)
    /\ UNCHANGED <<fOrg, fFilters, fResult, now, call, tasks, resp, prev, ncalls, written, scr, exp, item>>

\* cache.is_valid(key), on the file cache or on the no-op cache; with the file
\* cache it raises when get raises
HarnessIsValid(key, use_cache) ==
    /\ got' = [NoGot EXCEPT !.checked = TRUE, !.key = key, !.use_cache = use_cache,
                            !.valid = CacheIsValid(use_cache, cache, key, now),
                            !.raised = CacheGet(use_cache, cache, key, now).raised]
    /\ cache' = CacheAfterGet(use_cache, cache, key, now)
    /\ UNCHANGED <<fOrg, fFilters, fResult, now, call, tasks, resp, prev, ncalls, written, scr, exp, item>>

\* a cache file is damaged outside the program (or by an interrupted write): it no
\* longer holds the record that was stored
HarnessDamage(f, kind) ==
    /\ cache[f].kind = "entry"
    /\ cache' = [cache EXCEPT ![f].kind = kind]
    /\ written' = [written EXCEPT ![f] = None]
    /\ got' = NoGot
    /\ UNCHANGED <<fOrg, fFilters, fResult, now, call, tasks, resp, prev, ncalls, scr, exp, item>>

\* one clock unit passes
HarnessTick ==
    /\ now < MaxTime
    /\ now' = now + 1
    /\ got' = NoGot
    /\ UNCHANGED <<fOrg, fFilters, fResult, cache, call, tasks, resp, prev, ncalls, written, scr, exp, item>>

CacheNext ==
    \/ \E key \in Names, o \in HarnessOrgs : HarnessSet(key, o)
    \/ \E key \in Names : HarnessGet(key)
    \/ \E key \in Names, u \in BOOLEAN : HarnessIsValid(key, u)
    \/ \E f \in Files, kind \in DamagedKinds : HarnessDamage(f, kind)
    \/ HarnessTick

CacheInit ==
    FilterVarsInit /\ MainVarsInit /\ HarnessVarsInit /\ ScraperVarsInit /\ ExportVarsInit
        /\ TransformVarsInit
        /\ NoProviders

CacheSpec == CacheInit /\ [][CacheNext]_vars

\* the scraper harness
ScraperNext ==
    \/ /\ scr.pc = "idle"
       /\ \E impl \in NewScrapers \cup LegacyScrapers,
             cs \in SeqsUpTo(Candidates, MaxCandidates), b \in BOOLEAN, pg \in PageKinds :
             ScraperCall(impl, cs, b, pg)
    \/ \E ok \in BOOLEAN : SearchAttempt(ok)
    \/ \E ok \in BOOLEAN : PageAttempt(ok)

ScraperInit ==
    FilterVarsInit /\ MainVarsInit /\ HarnessVarsInit /\ ScraperVarsInit /\ ExportVarsInit
        /\ TransformVarsInit
        /\ NoProviders

\* the export harness
ExportInit ==
    FilterVarsInit /\ MainVarsInit /\ HarnessVarsInit /\ ScraperVarsInit /\ ExportInputs
        /\ TransformVarsInit
        /\ NoProviders

ExportSpec == ExportInit /\ [][ExportApply]_vars

\* the transformer harness
TransformInit ==
    FilterVarsInit /\ MainVarsInit /\ HarnessVarsInit /\ ScraperVarsInit /\ ExportVarsInit
        /\ TransformInputs
        /\ NoProviders

TransformSpec == TransformInit /\ [][TransformApply]_vars

ScraperSpec == ScraperInit /\ [][ScraperNext]_vars

----------------------------------------------------------------------------
\* Properties of the classification filter (FilterSpec)

Code4120 == <<"4", "1", ".", "2", "0">>

\* C5: for every organization and every non-empty list of filter prefixes, the
\* filter returns true if and only if the primary code or at least one additional
\* code starts with at least one prefix (also when the primary code is absent).
C5_FilterIffAnyCode ==
    (FilterDone /\ Truthy(fFilters)) =>
        /\ SvcResult = LiteralMatch(fOrg, Val(fFilters))
        /\ LegacyResult = LiteralMatch(fOrg, Val(fFilters))

C7_EmptyFilterMatchesAll ==
    (FilterDone /\ ~Truthy(fFilters)) => (SvcResult /\ LegacyResult)

C7_Witness ==
    /\ FilterDone
    /\ fFilters = Some(<<>>)
    /\ IsNone(fOrg.okved)
    /\ fOrg.okved_additional = <<>>
    /\ SvcResult

----------------------------------------------------------------------------
\* Properties of the cache store (CacheSpec)

Threshold == CacheDays * UnitsPerDay

\* C8: get(key) returns the stored record if and only if a record is stored for the
\* key and its age (now minus cached_at) is below the staleness threshold of 7 days;
\* an entry aged exactly the threshold, or more, is a miss.
C8_GetIffFresh ==
    got.done =>
        LET w == written[SafeFilename(got.key)] IN
        /\ ~IsNone(got.value) <=> (~IsNone(w) /\ now - Val(w).at < Threshold)
        /\ ~IsNone(got.value) => Val(got.value) = Val(w).org

\* a hit on an entry one clock unit younger than the threshold (6.5 days)
C8_Witness ==
    /\ got.done
    /\ ~IsNone(got.value)
    /\ now - Val(written[SafeFilename(got.key)]).at = Threshold - 1
    /\ ~IsNone(Val(got.value).registration_date)

\* kinds of file that are there but do not load as an entry
UnreadableKinds == DamagedKinds \cup {"empty"}

\* C16: an unreadable or corrupt cache entry (invalid JSON, no cached_at, no
\* organization, unparsable timestamp, invalid record) is a miss: get returns None
\* without raising, exactly what it returns when the file is absent, so that the
\* resolution goes on to the providers; the same holds for _load_from_cache.
C16_CorruptEntryIsMiss ==
    (got.done /\ ~PathTooLong(got.key)
        /\ cache[SafeFilename(got.key)].kind \in UnreadableKinds) =>
        LET without == [cache EXCEPT ![SafeFilename(got.key)] = Absent] IN
        /\ ~got.raised
        /\ IsNone(got.value)
        /\ FileCacheGet(cache, got.key, now) = FileCacheGet(without, got.key, now)
        /\ LoadFromCache(cache, got.key, now) = GetResult(FALSE, None)
        /\ \A f \in FilterChoices :
              /\ AfterGet(f, FileCacheGet(cache, got.key, now)).pc = "scrape"
              /\ AfterLoad(LoadFromCache(cache, got.key, now)).pc = "scrape"

\* a get on a file whose cached_at is recent and whose organization is not valid
C16_Witness ==
    /\ got.done
    /\ cache[SafeFilename(got.key)].kind = "invalid_organization"
    /\ now - cache[SafeFilename(got.key)].cached_at < Threshold
    /\ IsNone(got.value)
    /\ ~got.raised

\* the key with only alphanumerics, spaces, hyphens and underscores retained
Sanitized(key) == SelectSeq(key, LAMBDA c : c \in AlnumChars \cup {" ", "-", "_"})

\* the last set that stored an entry in file f, if the entry has not expired
FreshWrite(f) == ~IsNone(written[f]) /\ now - Val(written[f]).at < Threshold

\* C19: after set(k1, o), within the threshold, get(k2) returns o for every k2 with
\* the sanitized form of k1, be it k1 or another string, and the file holds the
\* entry of o and nothing of what was stored before.
C19_KeyedBySanitizedKey ==
    \A f \in Files :
        FreshWrite(f) =>
            LET w == Val(written[f]) IN
            /\ cache[f] = Entry(w.at, w.key, w.org)
            /\ \A k2 \in Names :
                  Sanitized(k2) = Sanitized(w.key) =>
                      /\ FileCacheGet(cache, k2, now) = GetResult(FALSE, Some(w.org))
                      /\ (got.done /\ got.key = k2) => got.value = Some(w.org)

\* a get with a key that differs from the key of the set and has the same sanitized
\* form, after the set replaced another record stored under the key of the get
C19_Witness ==
    /\ got.done
    /\ FreshWrite(SafeFilename(got.key))
    /\ Val(written[SafeFilename(got.key)]).key # got.key
    /\ Val(written[SafeFilename(got.key)]).replaced
    /\ got.value = Some(Val(written[SafeFilename(got.key)]).org)

\* C20: for the file cache and the no-op cache, every key and every state of the
\* cache, is_valid(key) is true if and only if get(key) in that state returns a
\* record (and is_valid raises exactly when get raises).
C20_IsValidIffGetReturns ==
    got.checked =>
        /\ got.valid <=> ~IsNone(CacheGet(got.use_cache, cache, got.key, now).value)
        /\ got.raised <=> CacheGet(got.use_cache, cache, got.key, now).raised
        /\ ~got.use_cache => ~got.valid

\* is_valid on an entry that is there and has expired
C20_Witness ==
    /\ got.checked
    /\ got.use_cache
    /\ cache[SafeFilename(got.key)].kind = "entry"
    /\ now - cache[SafeFilename(got.key)].cached_at >= Threshold
    /\ ~got.valid

----------------------------------------------------------------------------
\* Properties of the resolution and of search_organizations (Spec, BatchSpec)

OnlyName(name) ==
    [name |-> name, inn |-> None, ogrn |-> None, okved |-> None, status |-> None,
     reg_date |-> None, phone_number |-> None]

\* the call that just returned repeats the previous one (same names, same filter,
\* caching enabled), and both returned
Repeated ==
    /\ call.status = "returned"
    /\ prev.call.status = "returned"
    /\ Len(call.names) = 1
    /\ call.names = prev.call.names
    /\ call.okved_filters = prev.call.okved_filters
    /\ call.use_cache /\ prev.call.use_cache

\* C1 as stated: a name resolved twice (same filter, unchanged providers, the second
\* call within the staleness threshold of the first) yields identical data on both
\* calls and the second call invokes no provider.
C1_RepeatInvokesNoProvider ==
    (Repeated /\ call.finished - prev.call.finished < Threshold) =>
        /\ call.output = prev.call.output
        /\ tasks[1].net = 0

\* the first call left an entry for the name that has not expired at the second call
LeftFreshEntry ==
    LET e == prev.cache[SafeFilename(call.names[1])]
    IN e.kind = "entry" /\ call.finished - e.cached_at < Threshold

\* C1 amended: when the first call left an unexpired cache entry for the name (it
\* stored a filter-passing record or was itself answered from the cache), the second
\* call returns identical data and invokes no provider.
C1_RepeatServedFromCache ==
    (Repeated /\ LeftFreshEntry) =>
        /\ call.output = prev.call.output
        /\ tasks[1].net = 0

\* a repetition 6.5 days later, answered from the cache with a record that has a
\* registration date
C1_Witness ==
    /\ Repeated
    /\ LeftFreshEntry
    /\ call.finished - prev.call.finished = Threshold - 1
    /\ ~IsNone(tasks[1].result)
    /\ ~IsNone(call.output[1].reg_date)
    /\ call.output = prev.call.output
    /\ tasks[1].net = 0

\* what position i of the output must be, given the outcome of resolution i
OutcomeRecord(i) ==
    IF IsNone(tasks[i].result) THEN OnlyName(call.names[i])
    ELSE SimpleDict(Val(tasks[i].result))

\* C2: whatever the completion order of the resolutions, the i-th element of the
\* returned list is the outcome of resolving the i-th input name.
C2_OutputIndexAligned ==
    call.status = "returned" =>
        \A i \in 1..Len(call.output) :
            i <= Len(call.names) /\ call.output[i] = OutcomeRecord(i)

\* the second resolution completed first and the two outcomes differ
C2_Witness ==
    /\ call.status = "returned"
    /\ call.completed = <<2, 1>>
    /\ call.output[1] # call.output[2]
    /\ ~IsNone(tasks[1].result)

\* C3: search_organizations returns exactly one record per input name, for every
\* input list (the empty list and lists with duplicates included).
C3_OneRecordPerName ==
    call.status \in {"returned", "raised"} =>
        /\ call.status = "returned"
        /\ Len(call.output) = Len(call.names)

\* C4: at every input position whose name ends unresolved, the output record has
\* the input name of that position and inn, ogrn, okved, status, reg_date and
\* phone_number all null.
C4_UnresolvedOnlyName ==
    call.status = "returned" =>
        \A i \in 1..Len(call.names) :
            IsNone(tasks[i].result) =>
                /\ i <= Len(call.output)
                /\ call.output[i].name = call.names[i]
                /\ \A fld \in {"inn", "ogrn", "okved", "status", "reg_date", "phone_number"} :
                      IsNone(call.output[i][fld])

\* two different names, both unresolved after all providers were tried, the second
\* resolution finishing first
C4_Witness ==
    /\ call.status = "returned"
    /\ Len(call.names) = 2
    /\ call.names[1] # call.names[2]
    /\ call.completed = <<2, 1>>
    /\ IsNone(tasks[1].result) /\ IsNone(tasks[2].result)
    /\ tasks[2].net = NumScrapers
    /\ call.output[1] = OnlyName(call.names[1])
    /\ call.output[2] = OnlyName(call.names[2])

\* provider j answers the query of resolution i with a record that passes the filter
PassingAt(i, j) ==
    /\ resp[j] \in {"shop", "depot"}
    /\ MatchesOkvedFilter(call.okved_filters, Val(Response(resp[j], call.names[i]).org))

\* provider j is the first one with a filter-passing record, and an earlier one raises
FallbackCase(i, j) ==
    /\ IsNone(tasks[i].cached)
    /\ tasks[i].pc = "done"
    /\ tasks[i].net > 0
    /\ PassingAt(i, j)
    /\ \A k \in 1..(j - 1) : ~PassingAt(i, k)
    /\ \E k \in 1..(j - 1) : resp[k] = "raise"

\* C9: on a cache miss, if an earlier provider raises and a later provider returns a
\* filter-passing record, the resolution ends resolved with the later provider's
\* record, and the exception does not show in the outcome of the call.
C9_ProviderFallback ==
    \A i \in 1..Len(tasks) : \A j \in 1..NumScrapers :
        FallbackCase(i, j) =>
            /\ tasks[i].result = Response(resp[j], call.names[i]).org
            /\ call.status # "raised"
            /\ call.status = "returned" => call.output[i] = SimpleDict(Val(tasks[i].result))

\* the first provider raised, the second returned the record that is the result
C9_Witness ==
    /\ call.status = "returned"
    /\ Len(tasks) = 1
    /\ FallbackCase(1, 2)
    /\ resp[1] = "raise"
    /\ tasks[1].net = 2
    /\ tasks[1].result = Response(resp[2], call.names[1]).org

\* the cache returned a record to resolution i and the record fails the filter
CachedFilteredOut(i) ==
    /\ ~IsNone(tasks[i].cached)
    /\ ~MatchesOkvedFilter(call.okved_filters, Val(tasks[i].cached))

\* C10: when the cache holds a valid entry for the name and the record fails the
\* filter, the resolution ends unresolved without invoking any provider and the
\* output record carries only the name.
C10_CachedFilteredShortCircuit ==
    \A i \in 1..Len(tasks) :
        CachedFilteredOut(i) =>
            /\ tasks[i].pc = "done"
            /\ IsNone(tasks[i].result)
            /\ tasks[i].net = 0
            /\ call.status = "returned" => call.output[i] = OnlyName(call.names[i])

\* ... although some provider answers with a record that passes the filter
C10_Witness ==
    /\ call.status = "returned"
    /\ Len(tasks) = 1
    /\ CachedFilteredOut(1)
    /\ \E j \in 1..NumScrapers : PassingAt(1, j)
    /\ call.output[1] = OnlyName(call.names[1])

\* provider j answers the query of resolution i with a record that fails the filter
FilteredAt(i, j) ==
    /\ resp[j] \in {"shop", "depot"}
    /\ ~MatchesOkvedFilter(call.okved_filters, Val(Response(resp[j], call.names[i]).org))

\* resolution i missed the cache, provider j answered with a filter-failing record and
\* the later provider m is the first one with a filter-passing record
FilteredThenPassing(i, j, m) ==
    /\ IsNone(tasks[i].cached)
    /\ tasks[i].pc = "done"
    /\ tasks[i].net > 0
    /\ j < m
    /\ FilteredAt(i, j)
    /\ PassingAt(i, m)
    /\ \A k \in 1..(m - 1) : ~PassingAt(i, k)

\* C11: on a cache miss, a provider record that fails the filter is not written to
\* the cache and the resolution goes on with the next provider; the first later
\* filter-passing record is the result and is what the cache then holds.
C11_FilteredRecordSkipped ==
    \A i \in 1..Len(tasks) : \A j \in 1..NumScrapers : \A m \in 1..NumScrapers :
        FilteredThenPassing(i, j, m) =>
            /\ tasks[i].result = Response(resp[m], call.names[i]).org
            /\ tasks[i].net = m
            /\ (call.status = "returned" /\ Len(tasks) = 1) =>
                  LET e == cache[SafeFilename(call.names[i])] IN
                  e.kind = "entry" =>
                      \/ e = Entry(call.finished, call.names[i], Val(tasks[i].result))
                      \/ e = prev.cache[SafeFilename(call.names[i])]

\* resolution i missed the cache, asked every provider and none of them answered
\* with a filter-passing record
ExhaustedCase(i) ==
    /\ IsNone(tasks[i].cached)
    /\ tasks[i].pc = "done"
    /\ tasks[i].net = NumScrapers
    /\ \A j \in 1..NumScrapers : ~PassingAt(i, j)

\* C12: on a cache miss, if every provider returns no data, raises or returns a
\* filter-failing record, the resolution ends unresolved after the last provider: no
\* organization is returned and the cache is what it was before the call.
C12_ExhaustedUnresolved ==
    \A i \in 1..Len(tasks) :
        ExhaustedCase(i) =>
            /\ IsNone(tasks[i].result)
            /\ (call.status = "returned" /\ Len(tasks) = 1) => cache = prev.cache

\* C13: when the resolution of one name raises, the call still returns, that name
\* has an unresolved outcome and every other name has the outcome of its own
\* resolution.
C13_EscapedExceptionIsolated ==
    (call.status \in {"returned", "raised"} /\ \E i \in 1..Len(tasks) : tasks[i].pc = "raised") =>
        /\ call.status = "returned"
        /\ Len(call.output) = Len(call.names)
        /\ \A i \in 1..Len(tasks) :
              call.output[i] = IF tasks[i].pc = "raised" THEN OnlyName(call.names[i])
                               ELSE OutcomeRecord(i)

\* C14: no resolution ends with an exception: whatever the name, the filter and the
\* content of the cache, search_single returns an organization or None.
C14_ResolutionNeverRaises ==
    \A i \in 1..Len(tasks) : tasks[i].pc # "raised"

\* C15: with caching disabled a resolution is never answered from the cache, always
\* goes to the providers and leaves the cache directory as it was; get misses and
\* is_valid is false for every key.
C15_NoCacheNeverTouchesCache ==
    (call.status # "idle" /\ ~call.use_cache) =>
        /\ cache = prev.cache
        /\ \A i \in 1..Len(tasks) :
              /\ IsNone(tasks[i].cached)
              /\ tasks[i].pc # "raised"
              /\ Finished(tasks[i]) => tasks[i].net >= 1
        /\ \A n \in Names :
              /\ CacheGet(FALSE, cache, n, now) = GetResult(FALSE, None)
              /\ ~NoCacheIsValid(n)

\* a call without caching while the cache holds an unexpired entry for the name: the
\* providers are asked, the record they return is the result, the entry stays
C15_Witness ==
    /\ call.status = "returned"
    /\ ~call.use_cache
    /\ Len(tasks) = 1
    /\ ~IsNone(FileCacheGet(prev.cache, call.names[1], call.finished).value)
    /\ tasks[1].net >= 1
    /\ ~IsNone(tasks[1].result)
    /\ cache = prev.cache

----------------------------------------------------------------------------
\* Properties of the provider extractors (ScraperSpec)

AllFailed(log) == \A a \in 1..Len(log) : ~log[a]

Succeeded(log) == Len(log) > 0 /\ log[Len(log)]

\* the network call n of the search is waiting for its next attempt
AwaitingAttempt(n) ==
    /\ n = Len(scr.logs)
    /\ scr.pc = (IF n = 1 THEN "search_request" ELSE "page_request")

\* C17: each network call of a provider is attempted at most 3 times: attempts stop
\* at the first success, a failed attempt 1 or 2 is followed by another attempt, a
\* response received at any attempt is used, and after 3 failed attempts the search
\* returns no data and does not raise.
C17_ThreeAttemptsPerRequest ==
    \A n \in 1..Len(scr.logs) :
        LET log == scr.logs[n] IN
        /\ Len(log) <= StopAfterAttempt
        /\ AllFailed(SubSeq(log, 1, Len(log) - 1))
        /\ (AllFailed(log) /\ Len(log) < StopAfterAttempt) => AwaitingAttempt(n)
        /\ (AllFailed(log) /\ Len(log) = StopAfterAttempt) =>
              (scr.pc = "returned" /\ scr.result = NoData)
        /\ Succeeded(log) => ~AwaitingAttempt(n)
        /\ (n = 1 /\ Succeeded(log) /\ scr.body_ok
               /\ SelectCandidate(scr.impl, scr.candidates, 1).do = "return") =>
              (scr.pc = "returned" /\ scr.result.kind = "org")

\* no response to the search request or to the request of the detail page
TransportFailed == \E n \in 1..Len(scr.logs) : ~Succeeded(scr.logs[n])

\* the search response does not parse, or the detail page or the selected item does not
ExtractionFailed ==
    \/ ~scr.body_ok
    \/ SelectCandidate(scr.impl, scr.candidates, 1).do = "page" /\ scr.page = "error"
    \/ (SelectCandidate(scr.impl, scr.candidates, 1).do = "none"
          /\ SelectCandidate(scr.impl, scr.candidates, 1).from > 0)

NoRegionCandidate == \A i \in 1..Len(scr.candidates) : ~scr.candidates[i].region

\* C18: search_organization of RusprofileScraperImpl, ListOrgScraperImpl and
\* ZachemINNScraperImpl never raises to its caller: after a transport failure (retries
\* exhausted), an extraction failure or a search without a candidate of the region
\* it has returned None.
C18_SearchNeverRaises ==
    scr.impl \in NewScrapers =>
        /\ scr.pc # "raised"
        /\ (scr.pc = "returned" /\ (TransportFailed \/ ExtractionFailed \/ NoRegionCandidate)) =>
               scr.result = NoData

\* the search request got its response at the second attempt, the request of the
\* detail page failed three times, and the search returned None
C18_Witness ==
    /\ scr.impl \in NewScrapers
    /\ scr.pc = "returned"
    /\ scr.logs = << <<FALSE, TRUE>>, <<FALSE, FALSE, FALSE>> >>
    /\ scr.page = "org"
    /\ scr.result = NoData

----------------------------------------------------------------------------
\* Properties of the outcomes of the legacy coordinator (LegacySpec)

\* C21: every outcome of a returned batch carries the input name of its position as
\* query, an organization if and only if found is true, and an error if and only if
\* found is false; there is one outcome per name
C21_OutcomeWellFormed ==
    call.status = "returned" =>
        /\ Len(call.output) = Len(call.names)
        /\ \A i \in 1..Len(call.output) :
              /\ call.output[i].query = call.names[i]
              /\ ~IsNone(call.output[i].organization) <=> call.output[i].found
              /\ ~IsNone(call.output[i].error) <=> ~call.output[i].found

\* a batch of two names returned one found outcome, and an outcome whose record was
\* found and filtered out returned too
C21_Witness ==
    /\ call.status = "returned"
    /\ Len(call.names) = 2
    /\ \E i \in 1..2 : call.output[i].found
    /\ \E j \in 1..2 : /\ ~call.output[j].found
                       /\ \/ tasks[j].pc = "raised"
                          \/ ~IsNone(tasks[j].result)

----------------------------------------------------------------------------
\* Properties of the simplified record (ExportSpec, Spec)

DateDigits == {1, 2, 4, 5, 7, 8, 9, 10}

\* s is the date dt written as DD.MM.YYYY
IsDateText(s, dt) ==
    /\ Len(s) = 10
    /\ s[3] = "." /\ s[6] = "."
    /\ \A k \in DateDigits : s[k] \in Range(DigitChars)
    /\ Num(SubSeq(s, 1, 2)) = dt[3]
    /\ Num(SubSeq(s, 4, 5)) = dt[2]
    /\ Num(SubSeq(s, 7, 10)) = dt[1]

\* C22: the simplified record of an organization copies name, inn, ogrn, okved and
\* status, takes phone_number from phone, and has reg_date null without a
\* registration date and the date written as DD.MM.YYYY with one
C22_ExportProjection ==
    ~IsNone(exp.out) =>
        LET o == Val(exp.out)
            org == exp.org
        IN /\ o.name = org.name /\ o.inn = org.inn /\ o.ogrn = org.ogrn
           /\ o.okved = org.okved /\ o.status = org.status
           /\ o.phone_number = org.phone
           /\ IF IsNone(org.registration_date) THEN IsNone(o.reg_date)
              ELSE /\ ~IsNone(o.reg_date)
                   /\ IsDateText(Val(o.reg_date), Val(org.registration_date))

\* the same for registration years of four digits
C22_ExportProjectionFourDigitYear ==
    (~IsNone(exp.out) /\ (~IsNone(exp.org.registration_date) =>
                              Val(exp.org.registration_date)[1] >= 1000))
        => C22_ExportProjection

\* the scenario of C22 (Spec): empty cache, filter ["47"], the first provider returns
\* {name, okved "47.11"}: the output is that name with okved "47.11" and nulls
C22_ScenarioOutput ==
    (/\ call.status = "returned"
     /\ call.use_cache
     /\ prev.cache = [f \in Files |-> Absent]
     /\ call.okved_filters = Some(<<Okved47>>)
     /\ resp[1] = "shop")
        => call.output =
              << [name |-> call.names[1], inn |-> None, ogrn |-> None,
                  okved |-> Some(<<"4", "7", ".", "1", "1">>), status |-> None,
                  reg_date |-> None, phone_number |-> None] >>

C22_ScenarioWitness ==
    /\ call.status = "returned"
    /\ call.use_cache
    /\ prev.cache = [f \in Files |-> Absent]
    /\ call.okved_filters = Some(<<Okved47>>)
    /\ resp[1] = "shop"
    /\ cache[SafeFilename(call.names[1])].kind = "entry"

----------------------------------------------------------------------------
\* Properties of concurrent resolutions (PoolSpec)

\* one resolution run from its start to its end with nothing else running and no I/O
\* error, from provider idx on: its result and the cache it leaves
RECURSIVE ScrapeAlone(_, _, _, _, _, _)
ScrapeAlone(c, name, okved_filters, use_cache, t, idx) ==
    LET st == ScrapeStep(okved_filters, idx, Response(resp[idx], name))
    IN IF st.pc = "scrape" THEN ScrapeAlone(c, name, okved_filters, use_cache, t, st.idx)
       ELSE IF st.pc = "set_open"
            THEN [pc |-> "done", result |-> st.result,
                  cache |-> IF use_cache THEN FileCacheSet(c, name, Val(st.result), t) ELSE c]
            ELSE [pc |-> "done", result |-> None, cache |-> c]

ResolveAlone(c, name, okved_filters, use_cache, t) ==
    LET r == CacheGet(use_cache, c, name, t)
        a == AfterGet(okved_filters, r)
    IN IF a.pc = "scrape" THEN ScrapeAlone(c, name, okved_filters, use_cache, t, 1)
       ELSE [pc |-> a.pc, result |-> a.result, cache |-> c]

\* the resolutions of names run one after the other in the order of the names: the
\* results so far and the cache
RECURSIVE OneByOne(_, _, _, _, _, _)
OneByOne(c, names, okved_filters, use_cache, t, results) ==
    IF Len(results) = Len(names) THEN [results |-> results, cache |-> c]
    ELSE LET r == ResolveAlone(c, names[Len(results) + 1], okved_filters, use_cache, t)
         IN OneByOne(r.cache, names, okved_filters, use_cache, t,
                     Append(results, [pc |-> r.pc, result |-> r.result]))

\* the cache contents up to the cached_at timestamps
WithoutTimestamps(c) == [f \in Files |-> [c[f] EXCEPT !.cached_at = 0]]

\* the call is over, every resolution has ended, and no cache write met an I/O error
BatchOver ==
    /\ call.status \in {"returned", "raised"}
    /\ \A i \in 1..Len(tasks) : Finished(tasks[i]) /\ ~tasks[i].set_failed

\* the outcome of every name and the final cache are those of the one-by-one run
SameAsOneByOne ==
    LET ref == OneByOne(prev.cache, call.names, call.okved_filters, call.use_cache,
                        call.finished, <<>>)
    IN /\ \A i \in 1..Len(tasks) : /\ tasks[i].pc = ref.results[i].pc
                                    /\ tasks[i].result = ref.results[i].result
       /\ (call.status = "returned") = (\A i \in 1..Len(tasks) : ref.results[i].pc = "done")
       /\ call.status = "returned" =>
              call.output = ToOutput(call.names, [i \in 1..Len(tasks) |-> ref.results[i].result])
       /\ WithoutTimestamps(cache) = WithoutTimestamps(ref.cache)

\* no two different names of the batch share a cache file
NoSharedFile ==
    \A i, j \in 1..Len(call.names) :
        call.names[i] = call.names[j] \/ Sanitized(call.names[i]) # Sanitized(call.names[j])

\* C23 as stated: whatever the scheduling of the worker pool, a batch ends with the
\* same outcome for every name and the same cache contents, up to cached_at
C23_ScheduleIndependent == BatchOver => SameAsOneByOne

\* C23, amended: the same for a batch in which no two different names share a cache file
C23_ScheduleIndependentKeys == (BatchOver /\ NoSharedFile) => SameAsOneByOne

\* a batch names the same organization twice; the second resolution was answered from
\* the entry the first one wrote while the batch was running
C23_Witness ==
    /\ BatchOver
    /\ Len(call.names) = 2
    /\ call.names[1] = call.names[2]
    /\ tasks[1].net > 0
    /\ tasks[2].net = 0
    /\ ~IsNone(tasks[2].result)

----------------------------------------------------------------------------
\* Properties of the outcome of a filtered-out resolution (Spec, LegacySpec)

\* resolution i ended without a result although it found a record: the cached one,
\* or one returned by a provider it asked, failed the filter
FoundButFiltered(i) ==
    /\ tasks[i].pc = "done"
    /\ IsNone(tasks[i].result)
    /\ \/ CachedFilteredOut(i)
       \/ \E j \in 1..tasks[i].net : FilteredAt(i, j)

\* C24: the outcome returned for a resolution whose record was found and failed the
\* filter differs from the outcome returned for a name that no provider knows
C24_FilteredOutcomeDistinct ==
    call.status = "returned" =>
        \A i \in 1..Len(tasks) :
            FoundButFiltered(i) => call.output[i] # OnlyName(call.names[i])

\* the same for the legacy coordinator, whose outcomes carry an error text
C24_LegacyFilteredReason ==
    call.status = "returned" =>
        \A i \in 1..Len(tasks) :
            (/\ ~IsNone(tasks[i].result)
             /\ ~filter_by_okved(Val(tasks[i].result),
                                 IF Truthy(call.okved_filters) THEN Val(call.okved_filters)
                                 ELSE <<>>))
                => /\ call.output[i].error = Some(ErrNotMatching)
                   /\ call.output[i].error # Some(ErrNotFound)

C24_LegacyWitness ==
    /\ call.status = "returned"
    /\ \E i \in 1..Len(tasks) : call.output[i].error = Some(ErrNotMatching)

----------------------------------------------------------------------------
\* Properties of the names of the records (ScraperSpec)

\* C25: a record returned by search_organization of a provider extractor has a
\* non-empty name
C25_RecordHasName ==
    (scr.pc = "returned" /\ scr.result.kind = "org") => Len(scr.result.name) > 0

----------------------------------------------------------------------------
\* Properties of the order of the steps of one resolution (Spec)

ProviderOrder == <<"RusprofileScraper", "ListOrgScraper", "ZachemINNScraper">>

\* C26: in every resolution the providers asked so far are an initial part of
\* Rusprofile, ListOrg, ZachemINN, asked one at a time; none is asked before the cache
\* lookup, after a cache hit or after a raised lookup; the next one to ask is the next
\* in the order; and every provider asked before the last one finished without a
\* filter-passing record, so that none is asked once such a record has been obtained
C26_SequentialSteps ==
    \A i \in 1..Len(tasks) :
        LET t == tasks[i] IN
        /\ Len(t.asked) <= Len(ProviderOrder)
        /\ t.asked = SubSeq(ProviderOrder, 1, Len(t.asked))
        /\ (t.pc \in {"queued", "raised"} \/ ~IsNone(t.cached)) => t.asked = <<>>
        /\ t.pc = "scrape" => t.idx = Len(t.asked) + 1
        /\ \A k \in 1..Len(t.asked) : k < Len(t.asked) => ~PassingAt(i, k)
        /\ (t.pc \in {"set_open", "set_write"} \/ (t.pc = "done" /\ ~IsNone(t.result)
                                                     /\ IsNone(t.cached)))
              => PassingAt(i, Len(t.asked))

\* after a miss the first provider gave no passing record, the second gave one and
\* the resolution ended with it; the third, which has a passing record too, was not
\* asked
C26_Witness ==
    \E i \in 1..Len(tasks) :
        /\ tasks[i].pc = "done"
        /\ IsNone(tasks[i].cached)
        /\ tasks[i].asked = <<"RusprofileScraper", "ListOrgScraper">>
        /\ ~PassingAt(i, 1)
        /\ PassingAt(i, 2)
        /\ PassingAt(i, 3)
        /\ tasks[i].result = Response(resp[2], call.names[i]).org

----------------------------------------------------------------------------
\* Properties of what is written to the cache (Spec, PoolSpec, LegacySpec)

\* the file holds an entry that was written since the call started
WrittenInCall(f) == cache[f].kind = "entry" /\ cache[f] # prev.cache[f]

\* C27: an entry written during a call was written by a resolution of the call for
\* the name it is stored for, the resolution holds its record as its result, and the
\* record passes the filter of the call
C27_CachedRecordPassedFilter ==
    \A f \in Files :
        WrittenInCall(f) =>
            LET record == OrgFromJson(Val(cache[f].organization)) IN
            /\ MatchesOkvedFilter(call.okved_filters, record)
            /\ \E i \in 1..Len(tasks) :
                  /\ call.names[i] = cache[f].query
                  /\ SafeFilename(call.names[i]) = f
                  /\ tasks[i].result = Some(record)

C27_Witness ==
    /\ call.status = "returned"
    /\ call.okved_filters = Some(<<Okved47>>)
    /\ \E f \in Files : WrittenInCall(f)

----------------------------------------------------------------------------
\* Properties of what changes the cache store (CacheSpec, Spec)

\* the step is a get or an is_valid
ReadStep == got'.done \/ got'.checked

\* the step is a set that stored its entry in file f
SetStepOn(f) ==
    /\ ~IsNone(written'[f])
    /\ Sanitized(Val(written'[f]).key) = f
    /\ cache'[f] = Entry(now, Val(written'[f]).key, Val(written'[f]).org)

\* the step is damage done to file f from outside the program
DamageStepOn(f) == cache[f].kind = "entry" /\ cache'[f].kind \in DamagedKinds

\* C28: a get or an is_valid leaves every cache file as it is, whatever it holds; a
\* file changes only in a set for a key whose sanitized form names the file (or by
\* damage from outside)
C28_ReadsLeaveStore ==
    [][/\ ReadStep => cache' = cache
       /\ \A f \in Files : cache'[f] # cache[f] => (SetStepOn(f) \/ DamageStepOn(f))]_vars

\* a get has just returned None for an expired entry, or for a damaged file, and the
\* file is still there
C28_Witness ==
    /\ got.done
    /\ IsNone(got.value)
    /\ ~got.raised
    /\ cache[SafeFilename(got.key)].kind = "entry"
    /\ now - cache[SafeFilename(got.key)].cached_at >= Threshold

\* the same for the resolutions of the service (Spec): a file changes only inside
\* the cache.set of a resolution that holds a record, for a name of that file
C28_OnlySetWrites ==
    [][\A f \in Files :
          cache'[f] # cache[f] =>
              \E i \in 1..Len(tasks) :
                  /\ tasks[i].pc \in {"set_open", "set_write"}
                  /\ ~IsNone(tasks[i].result)
                  /\ Sanitized(call.names[i]) = f]_vars

----------------------------------------------------------------------------
\* Properties of resolutions that share the cache directory (PoolSpec)

\* no other name of the batch has the sanitized key of name i
OwnKey(i) ==
    \A j \in 1..Len(call.names) :
        j # i => Sanitized(call.names[j]) # Sanitized(call.names[i])

\* C29: a file that is the file of no name of the batch is left as it was; a
\* resolution whose sanitized key differs from those of the other resolutions of the
\* batch gets from the cache what it would get alone and, once it has ended (without
\* I/O error), has the result and has left the entry that it would alone, whatever
\* the other resolutions did meanwhile
C29_OwnEntryOnly ==
    /\ \A f \in Files :
          (\A i \in 1..Len(call.names) : Sanitized(call.names[i]) # f) => cache[f] = prev.cache[f]
    /\ \A i \in 1..Len(tasks) :
          (OwnKey(i) /\ tasks[i].pc # "queued") =>
              LET n == call.names[i]
                  alone == ResolveAlone(prev.cache, n, call.okved_filters, call.use_cache, now)
              IN /\ tasks[i].cached = CacheGet(call.use_cache, prev.cache, n, now).value
                 /\ (Finished(tasks[i]) /\ ~tasks[i].set_failed) =>
                        /\ tasks[i].pc = alone.pc
                        /\ tasks[i].result = alone.result
                        /\ cache[SafeFilename(n)] = alone.cache[SafeFilename(n)]

\* two resolutions with different sanitized keys overlapped (the second was taken from
\* the queue after the first and ended before it) and both have stored their entry
C29_Witness ==
    /\ Len(tasks) = 2
    /\ OwnKey(1)
    /\ \A i \in 1..2 : /\ tasks[i].pc = "done"
                       /\ ~tasks[i].set_failed
                       /\ cache[SafeFilename(call.names[i])].kind = "entry"
    /\ call.completed = <<2, 1>>

----------------------------------------------------------------------------
\* Termination (FairBatchSpec)

\* C30: every resolution that was started ends RESOLVED or UNRESOLVED, that is by
\* returning a record or None, and every batch that was started returns
C30_EndsByReturning ==
    /\ \A i \in 1..MaxNames :
          (Len(tasks) >= i /\ tasks[i].pc = "queued") ~> (Len(tasks) >= i /\ tasks[i].pc = "done")
    /\ (call.status = "running") ~> (call.status = "returned")

\* every resolution ends, by returning or by raising, and so does every batch
C30_Ends ==
    /\ \A i \in 1..MaxNames :
          (Len(tasks) >= i /\ tasks[i].pc = "queued") ~> (Len(tasks) >= i /\ Finished(tasks[i]))
    /\ (call.status = "running") ~> (call.status \in {"returned", "raised"})

----------------------------------------------------------------------------
\* Properties of two resolutions of the same name in one batch (PoolSpec)

\* every name of the batch whose file is f is the name n
OnlyNameOfFile(n) ==
    \A k \in 1..Len(call.names) :
        Sanitized(call.names[k]) = Sanitized(n) => call.names[k] = n

\* resolutions i and j, of the same name, both missed the cache, both got a record
\* from the providers and both wrote it
BothWrote(i, j) ==
    /\ i # j
    /\ call.names[i] = call.names[j]
    /\ OnlyNameOfFile(call.names[i])
    /\ \A k \in {i, j} : /\ tasks[k].pc = "done"
                          /\ IsNone(tasks[k].cached)
                          /\ tasks[k].net > 0
                          /\ ~IsNone(tasks[k].result)
                          /\ ~tasks[k].set_failed

----------------------------------------------------------------------------
\* Properties of the state shared by the resolutions of one batch (PoolSpec)

\* resolutions i and j are in the worker pool at the same time
RunningTogether(i, j) == i # j /\ Executing(tasks[i]) /\ Executing(tasks[j])

\* C32: two resolutions that run at the same time have used no HTTP session in common
C32_NoSharedSession ==
    \A i, j \in 1..Len(tasks) :
        RunningTogether(i, j) => tasks[i].sessions \cap tasks[j].sessions = {}

----------------------------------------------------------------------------
\* Properties of the worker pool (FairFullSpec)

\* C33: there is one resolution per name of the batch, at no time more than
\* max_workers resolutions are executing, and every resolution that waits in the
\* queue of the executor is eventually taken by a worker
C33_BoundedPool ==
    /\ [](/\ call.status = "running" => Len(tasks) = Len(call.names)
          /\ Cardinality({i \in 1..Len(tasks) : Executing(tasks[i])}) <= MaxWorkers)
    /\ \A i \in 1..Len(FullBatch) :
          (i <= Len(tasks) /\ tasks[i].pc = "queued")
              ~> (i <= Len(tasks) /\ tasks[i].pc # "queued")

\* every worker is busy and a resolution waits for one
C33_Witness ==
    /\ Len(tasks) = MaxWorkers + 1
    /\ \A i \in 1..MaxWorkers : Executing(tasks[i])
    /\ tasks[MaxWorkers + 1].pc = "queued"

\* the waiting resolution was executed after a worker became free
C33_WitnessExecuted ==
    /\ call.status = "returned"
    /\ Len(tasks) = MaxWorkers + 1
    /\ tasks[MaxWorkers + 1].net > 0

----------------------------------------------------------------------------
\* Properties of the records built from a JSON item (TransformSpec)

\* the record that transform returned, if any
Transformed == Val(Val(item.out))

\* C34: a field whose key the item does not have is absent from the record; the
\* name is required, so an item without name gives no record
C34_MissingStaysAbsent ==
    ~IsNone(item.out) =>
        /\ IsNone(item.data.name) => IsNone(Val(item.out))
        /\ ~IsNone(Val(item.out)) =>
               /\ IsNone(item.data.inn) => IsNone(Transformed.inn)
               /\ IsNone(item.data.status) => IsNone(Transformed.status)
               /\ IsNone(item.data.okved_code) => IsNone(Transformed.okved)
               /\ IsNone(Transformed.ogrn)
               /\ IsNone(Transformed.kpp)
               /\ IsNone(Transformed.director)

----------------------------------------------------------------------------
\* Properties of the choice of the candidate (ScraperSpec)

\* candidate i is the first one whose text contains the region
FirstOfRegion(i) ==
    /\ i \in 1..Len(scr.candidates)
    /\ scr.candidates[i].region
    /\ \A j \in 1..(i - 1) : ~scr.candidates[j].region

\* C35: the candidate from which search_organization of RusprofileScraperImpl,
\* ListOrgScraperImpl or ZachemINNScraperImpl requested the detail page or built its
\* record is the first candidate of the region
C35_FirstCandidateOnly ==
    (scr.impl \in NewScrapers /\ scr.pc \in {"page_request", "returned"} /\ scr.chosen > 0)
        => FirstOfRegion(scr.chosen)

----------------------------------------------------------------------------
\* Properties of the single-name function (SingleSpec)

\* the arguments given to search_organization
Given == Val(call.single)

\* C36: a call made through search_organization(name, use_cache, region) runs as
\* search_organizations([name], None, use_cache, region): without filter, with the
\* cache switched as use_cache says and with the given region; with use_cache
\* false the cache directory is neither read nor written
C36_SingleAsBatchOfOne ==
    ~IsNone(call.single) =>
        /\ Len(call.names) = 1
        /\ ~Truthy(call.okved_filters)
        /\ call.use_cache = Given.use_cache
        /\ call.region = Given.region
        /\ ~Given.use_cache =>
               /\ cache = prev.cache
               /\ \A i \in 1..Len(tasks) : tasks[i].saw = "unread"

\* the part of C36 about the cache alone: with use_cache false the cache directory
\* is neither read nor written
C36_NoCacheWhenSwitchedOff ==
    (~IsNone(call.single) /\ ~Given.use_cache) =>
        /\ cache = prev.cache
        /\ \A i \in 1..Len(tasks) : tasks[i].saw = "unread"

----------------------------------------------------------------------------
\* Properties of the cache round trip of the legacy engine (LegacySpec)

\* the resolution of a single-name request got a record from a provider and
\* _save_to_cache opened the file without an I/O error
SavedAlone ==
    /\ Len(tasks) = 1
    /\ tasks[1].pc = "done"
    /\ tasks[1].net > 0
    /\ ~IsNone(tasks[1].result)
    /\ ~tasks[1].set_failed

\* C37: after _save_to_cache(q, org) of a record that a provider returned,
\* _load_from_cache(q) made before the entry is 7 days old returns a record equal
\* to org
C37_SaveThenLoad ==
    SavedAlone =>
        LoadFromCache(cache, call.names[1], cache[SafeFilename(call.names[1])].cached_at).value
            = tasks[1].result

----------------------------------------------------------------------------
\* Properties of the number of HTTP attempts (ScraperSpec)

\* the network calls one search_organization can make: the search request, and for
\* the HTML providers the request of one detail page
MaxRequests(impl) == IF impl \in {"ZachemINNScraperImpl", "ZachemINNScraper"} THEN 1 ELSE 2

RECURSIVE CountAttempts(_)
\* the number of attempts in a sequence of attempt logs
CountAttempts(logs) == IF logs = <<>> THEN 0 ELSE Len(Head(logs)) + CountAttempts(Tail(logs))

\* the attempts that the three default providers can make together
AttemptsOfDefaultProviders ==
    StopAfterAttempt * MaxRequests("RusprofileScraperImpl")
        + StopAfterAttempt * MaxRequests("ListOrgScraperImpl")
        + StopAfterAttempt * MaxRequests("ZachemINNScraperImpl")

\* C38: one search_organization of a provider extractor makes at most 2 network
\* calls (1 for the JSON provider), each attempted at most 3 times, so that the three
\* default providers make at most 15 attempts in one resolution
C38_BoundedAttempts ==
    /\ scr.impl \in NewScrapers =>
           /\ Len(scr.logs) <= MaxRequests(scr.impl)
           /\ \A n \in 1..Len(scr.logs) : Len(scr.logs[n]) <= StopAfterAttempt
           /\ CountAttempts(scr.logs) <= StopAfterAttempt * MaxRequests(scr.impl)
    /\ AttemptsOfDefaultProviders = 15

\* an HTML provider made its two network calls with three attempts each
C38_Witness ==
    /\ scr.impl = "ListOrgScraperImpl"
    /\ scr.pc = "returned"
    /\ Len(scr.logs) = 2
    /\ Len(scr.logs[1]) = StopAfterAttempt
    /\ Len(scr.logs[2]) = StopAfterAttempt

\* the part of C38 about the cache (Spec): a resolution served from the cache has
\* made no provider call
C38_NoAttemptOnHit ==
    \A i \in 1..Len(tasks) : ~IsNone(tasks[i].cached) => tasks[i].net = 0

----------------------------------------------------------------------------
\* Properties of a get that runs while the same file is being written (PoolSpec)

\* resolution j has written its record into the file that resolution i reads
WroteFileOf(j, i) ==
    /\ j # i
    /\ Sanitized(call.names[j]) = Sanitized(call.names[i])
    /\ tasks[j].pc = "done"
    /\ ~IsNone(tasks[j].result)
    /\ tasks[j].net > 0
    /\ ~tasks[j].set_failed

\* C39: the cache lookup of a resolution never raises, whatever another resolution
\* is doing to the file; on a file that is truncated or damaged it returns None, and
\* a record it returns is the whole record that a set of another resolution wrote
\* into that file
C39_GetDuringSet ==
    \A i \in 1..Len(tasks) :
        /\ tasks[i].pc # "raised"
        /\ tasks[i].saw \in {"empty", "garbage"} => IsNone(tasks[i].cached)
        /\ ~IsNone(tasks[i].cached) =>
               \E j \in 1..Len(tasks) :
                   /\ WroteFileOf(j, i)
                   /\ tasks[i].cached = Some(OrgFromJson(OrgToJson(Val(tasks[j].result))))

\* the lookup of the second resolution found the file truncated by the set of the
\* first, which has not written yet, and went on to the providers
C39_Witness ==
    /\ Len(tasks) = 2
    /\ tasks[1].pc = "set_write"
    /\ tasks[2].saw = "empty"
    /\ tasks[2].pc = "scrape"
    /\ IsNone(tasks[2].cached)

\* the lookup of the second resolution returned the record that the first had
\* written
C39_WitnessHit ==
    /\ Len(tasks) = 2
    /\ tasks[2].saw = "entry"
    /\ ~IsNone(tasks[2].cached)

====
